---- MODULE Spec2Model ----
(***************************************************************************)
(* The conversational state machine of the PlacePilot Telegram bot.        *)
(*                                                                         *)
(* Spec        placemaker_bot: the conversation of one chat, driven        *)
(*             through the ConversationHandler wiring of                   *)
(*             placemaker_bot/main.py from the first /start.               *)
(* SpecWizard  placemaker_bot: the handlers of the wizard states behind    *)
(*             ADDRESS, invoked on every stored draft.                     *)
(* SpecSanitize  _sanitize_suggest_params applied to raw parameter maps.   *)
(* SpecCsb     conversational_search_bot.py: the wizard with a PHOTOS      *)
(*             step.                                                       *)
(* SpecBot     bot.py: the step-by-step search filters.                    *)
(***************************************************************************)
EXTENDS Integers, Sequences, FiniteSets, TLC

VARIABLES
    conv_state,     \* ConversationHandler state of the chat ("END": no conversation)
    user_data,      \* context.user_data: the keys present and their values
    parsed_log,     \* history: the parser results merged since the location share
    last,           \* the update handled last: handler, inputs, outcome, calls made
    san_pc,         \* _sanitize_suggest_params: "idle" (raw map being built) | "done"
    san_raw,        \* the raw parameter map given to it
    san_out,        \* the map it returned
    csb_state,      \* conversational_search_bot.py: conversation state
    csb_user_data,  \* conversational_search_bot.py: context.user_data
    csb_last,       \* conversational_search_bot.py: the update handled last
    bot_state,      \* bot.py: conversation state
    bot_user_data,  \* bot.py: context.user_data
    bot_last,       \* bot.py: the update handled last
    wh_state,       \* web_server.py: the conversation state stored for the chat
    wh_tasks,       \* web_server.py: the process_update tasks on the event loop
    registry,       \* agents: agent_registry._agents, the instance held per type
    reg_last,       \* agents: the registry operation done last
    sessions,       \* agents: session_id and started_at of each agent instance
    requests,       \* agents: per chat, the request the supervisor is processing
    utcnow,         \* agents: the clock datetime.utcnow() reads
    rank_last,      \* agents: the _rank_recommendations call made last
    fsq_call,       \* hackathon_idea FoursquareClient: the _make_request call under way
    route_last      \* agents: the message the supervisor routed last

convVars == <<conv_state, user_data, parsed_log, last>>
sanVars == <<san_pc, san_raw, san_out>>
csbVars == <<csb_state, csb_user_data, csb_last>>
botVars == <<bot_state, bot_user_data, bot_last>>
whVars == <<wh_state, wh_tasks>>
agVars == <<registry, reg_last, sessions, requests, utcnow>>
extVars == <<wh_state, wh_tasks, registry, reg_last, sessions, requests, utcnow,
             rank_last, fsq_call, route_last>>
vars == <<conv_state, user_data, parsed_log, last, san_pc, san_raw, san_out,
          csb_state, csb_user_data, csb_last, bot_state, bot_user_data, bot_last,
          wh_state, wh_tasks, registry, reg_last, sessions, requests, utcnow,
          rank_last, fsq_call, route_last>>

\* AgentType (models/pydantic_models.py).
AgentTypes == {"supervisor", "search", "recommendation", "data_management"}

\* The chats whose requests reach the agent system.
Chats == {"chat1", "chat2"}

\* Before any POST, any import of the agents package and any request.
InitExt ==
    /\ wh_state = "END"
    /\ wh_tasks = <<>>
    /\ registry = [t \in {} |-> 0]
    /\ reg_last = [op |-> "none", created |-> 0]
    /\ sessions = [id \in {} |-> 0]
    /\ requests = [c \in Chats |->
          [pc |-> "idle", served |-> 0, agent |-> 0, session_id |-> [t |-> "None"],
           started_at |-> [t |-> "None"], outcome |-> "none",
           context_updates |-> [k \in {} |-> 0], metrics |-> [t |-> "None"]]]
    /\ utcnow = 0
    /\ rank_last = [outcome |-> "none"]
    /\ fsq_call = [pc |-> "idle", attempt |-> 0, seen |-> <<>>, slept |-> <<>>,
                   result |-> [kind |-> "none"]]
    /\ route_last = [handled_by |-> "none"]

(***************************************************************************)
(* Bounds of the model.                                                    *)
(***************************************************************************)
MaxTurns == 2        \* query texts merged per location share
MaxAttributes == 2   \* attribute labels tapped and kept in user_data
MaxRawKeys == 2      \* keys of a raw map given to _sanitize_suggest_params
MaxPhotos == 5       \* photo file ids kept in csb_user_data['photos']

(***************************************************************************)
(* Python strings: str.strip, str.lower, str.split, str.join, str.isalnum, *)
(* `in`, str.startswith, computed character by character.                  *)
(***************************************************************************)
Char(s, i) == SubSeq(s, i, i)

RECURSIVE LStripSet(_, _)
LStripSet(s, chars) ==
    IF Len(s) > 0 /\ Char(s, 1) \in chars
    THEN LStripSet(SubSeq(s, 2, Len(s)), chars)
    ELSE s

RECURSIVE RStripSet(_, _)
RStripSet(s, chars) ==
    IF Len(s) > 0 /\ Char(s, Len(s)) \in chars
    THEN RStripSet(SubSeq(s, 1, Len(s) - 1), chars)
    ELSE s

StripSet(s, chars) == RStripSet(LStripSet(s, chars), chars)

Whitespace == {" "}

Strip(s) == StripSet(s, Whitespace)

UpperLetters == "ABCDEFGHIJKLMNOPQRSTUVWXYZ"
LowerLetters == "abcdefghijklmnopqrstuvwxyz"
Digits == "0123456789"

LowerChar(c) ==
    IF \E i \in 1..Len(UpperLetters) : Char(UpperLetters, i) = c
    THEN Char(LowerLetters, CHOOSE i \in 1..Len(UpperLetters) : Char(UpperLetters, i) = c)
    ELSE c

RECURSIVE Lower(_)
Lower(s) ==
    IF Len(s) = 0 THEN ""
    ELSE LowerChar(Char(s, 1)) \o Lower(SubSeq(s, 2, Len(s)))

AlnumChars ==
    {Char(UpperLetters, i) : i \in 1..Len(UpperLetters)}
        \cup {Char(LowerLetters, i) : i \in 1..Len(LowerLetters)}
        \cup {Char(Digits, i) : i \in 1..Len(Digits)}

IsAlnum(s) == Len(s) > 0 /\ \A i \in 1..Len(s) : Char(s, i) \in AlnumChars

Contains(s, sub) ==
    \E i \in 1..(Len(s) - Len(sub) + 1) : SubSeq(s, i, i + Len(sub) - 1) = sub

StartsWith(s, p) == Len(s) >= Len(p) /\ SubSeq(s, 1, Len(p)) = p

RECURSIVE SplitFrom(_, _, _)
SplitFrom(s, sep, cur) ==
    IF Len(s) = 0 THEN <<cur>>
    ELSE IF Char(s, 1) = sep
         THEN <<cur>> \o SplitFrom(SubSeq(s, 2, Len(s)), sep, "")
         ELSE SplitFrom(SubSeq(s, 2, Len(s)), sep, cur \o Char(s, 1))

Split(s, sep) == SplitFrom(s, sep, "")

RECURSIVE Join(_, _)
Join(parts, sep) ==
    IF Len(parts) = 0 THEN ""
    ELSE IF Len(parts) = 1 THEN parts[1]
    ELSE parts[1] \o sep \o Join(Tail(parts), sep)

RECURSIVE FilterNonEmpty(_)
FilterNonEmpty(parts) ==
    IF Len(parts) = 0 THEN <<>>
    ELSE IF Len(parts[1]) > 0
         THEN <<parts[1]>> \o FilterNonEmpty(Tail(parts))
         ELSE FilterNonEmpty(Tail(parts))

StripEach(parts) == [i \in 1..Len(parts) |-> Strip(parts[i])]

RECURSIVE NatToStr(_)
NatToStr(n) ==
    IF n < 10 THEN Char(Digits, n + 1)
    ELSE NatToStr(n \div 10) \o Char(Digits, (n % 10) + 1)

IntToStr(i) == IF i < 0 THEN "-" \o NatToStr(0 - i) ELSE NatToStr(i)

(***************************************************************************)
(* Python values where the code is dynamically typed, and dicts.           *)
(***************************************************************************)
None == [t |-> "None"]
PyStr(s) == [t |-> "str", v |-> s]
PyInt(i) == [t |-> "int", v |-> i]
PyFloat(i) == [t |-> "float", v |-> i]
PyBool(b) == [t |-> "bool", v |-> b]
PyList(l) == [t |-> "list", v |-> l]

EmptyDict == [k \in {} |-> None]

Get(d, k, default) == IF k \in DOMAIN d THEN d[k] ELSE default

Put(d, k, v) == [x \in DOMAIN d \cup {k} |-> IF x = k THEN v ELSE d[x]]

Pop(d, k) == [x \in DOMAIN d \ {k} |-> d[x]]

(***************************************************************************)
(* PTB filters: which handler of a state's list takes a text message.      *)
(***************************************************************************)
IsCommand(text) == StartsWith(text, "/")

TextNotCommand(text) == ~IsCommand(text)

SkipCmd(text) == text = "/skip"

TextOrSkip(text) == TextNotCommand(text) \/ SkipCmd(text)

ConversationStates ==
    {"LOCATION", "LOCATION_CHOICE", "QUERY", "REFINE", "NAME", "CATEGORY",
     "ADDRESS", "COORDINATES", "COORDINATES_MANUAL", "CONTACT", "HOURS",
     "CUSTOM_HOURS", "ATTRIBUTES", "PRIVATE_PLACE", "PHOTOS", "CONFIRM"}

Locations == {[latitude |-> 40, longitude |-> 0 - 74]}

(***************************************************************************)
(* /start and /cancel.                                                     *)
(***************************************************************************)
\* The handlers main.py registers for a state, each named by its filter.
StateHandlers(state) ==
    CASE state = "LOCATION" -> <<"LOCATION", "WEB_APP_DATA">>
      [] state \in {"LOCATION_CHOICE", "QUERY", "REFINE", "NAME", "ATTRIBUTES"} ->
            <<"TEXT & ~COMMAND">>
      [] state = "PHOTOS" -> <<"PHOTO", "command skip", "command done">>
      [] state = "CONFIRM" -> <<"callback_query">>
      [] state = "END" -> <<>>
      [] OTHER -> <<"TEXT & ~COMMAND", "skip_cmd">>

\* Mutant: the text filter also takes commands.
FilterMatches_AnyText(filter, text) ==
    CASE filter = "TEXT & ~COMMAND" -> TRUE
      [] filter = "skip_cmd" -> SkipCmd(text)
      [] filter = "command skip" -> text = "/skip"
      [] filter = "command done" -> text = "/done"
      [] OTHER -> FALSE

\* Whether a handler's filter takes a text message.
FilterMatches(filter, text) ==
    CASE filter = "TEXT & ~COMMAND" -> TextNotCommand(text)
      [] filter = "skip_cmd" -> SkipCmd(text)
      [] filter = "command skip" -> text = "/skip"
      [] filter = "command done" -> text = "/done"
      [] OTHER -> FALSE

\* ConversationHandler: outside a conversation only the entry point /start is
\* tried; inside, the state's handlers come first and the fallbacks /start
\* and /cancel after them.
Dispatch(state, text) ==
    IF state = "END"
    THEN (IF text = "/start" THEN "start" ELSE "none")
    ELSE IF \E i \in 1..Len(StateHandlers(state)) : FilterMatches(StateHandlers(state)[i], text)
    THEN "state"
    ELSE IF text = "/start" THEN "start"
    ELSE IF text = "/cancel" THEN "cancel"
    ELSE "none"

Start ==
    /\ Dispatch(conv_state, "/start") = "start"
    /\ conv_state' = "LOCATION"
    /\ last' = [handler |-> "start", from |-> conv_state]
    /\ UNCHANGED <<user_data, parsed_log>>
    /\ UNCHANGED <<sanVars, csbVars, botVars, extVars>>

\* /cancel is a fallback only: outside a conversation no handler takes it.
Cancel ==
    /\ Dispatch(conv_state, "/cancel") = "cancel"
    /\ conv_state' = "END"
    /\ last' = [handler |-> "cancel", from |-> conv_state]
    /\ UNCHANGED <<user_data, parsed_log>>
    /\ UNCHANGED <<sanVars, csbVars, botVars, extVars>>

\* Mutant: the location is stored and search_params left as it is.
LocationShared_KeepsFilters(ud, loc) == Put(ud, "location", loc)

\* location_handler lines 680-684: the location is stored and search_params
\* is set to {}.
LocationShared(ud, loc) == Put(Put(ud, "location", loc), "search_params", EmptyDict)

LocationHandler ==
    /\ conv_state = "LOCATION"
    /\ \E loc \in Locations :
          /\ user_data' = LocationShared(user_data, loc)
          /\ last' = [handler |-> "location_handler", from |-> conv_state, location |-> loc,
                      before |-> Get(user_data, "search_params", EmptyDict)]
    /\ parsed_log' = <<>>
    /\ conv_state' = "LOCATION_CHOICE"
    /\ UNCHANGED <<sanVars, csbVars, botVars, extVars>>

(***************************************************************************)
(* Search flow: parse_search_query_gpt, query_handler, refine_handler,     *)
(* do_foursquare_search.                                                   *)
(***************************************************************************)
SearchParamKeys ==
    {"query", "open_now", "radius", "limit", "fsq_category_ids",
     "min_price", "max_price", "search_now", "explanation"}

\* FoursquareSearchParams.model_dump(): every field of the model is a key.
FoursquareSearchParams(query, open_now, radius, min_price, max_price, search_now, explanation) ==
    [k \in SearchParamKeys |->
        CASE k = "query" -> query
          [] k = "open_now" -> open_now
          [] k = "radius" -> radius
          [] k = "limit" -> None
          [] k = "fsq_category_ids" -> None
          [] k = "min_price" -> min_price
          [] k = "max_price" -> max_price
          [] k = "search_now" -> search_now
          [] OTHER -> explanation]

\* What the LLM may answer to parse_search_query_gpt (a FoursquareSearchParams).
ParsedSearchResults ==
    {FoursquareSearchParams(PyStr("pizza"), None, None, None, PyInt(2), PyBool(TRUE), PyStr("cheap pizza")),
     FoursquareSearchParams(PyStr(""), PyBool(TRUE), PyInt(500), None, None, PyBool(FALSE), PyStr("")),
     FoursquareSearchParams(PyStr("sushi"), PyBool(FALSE), None, PyInt(3), None, PyBool(FALSE), PyStr("sushi, dear"))}

\* llm.parse either returns a parsed model or raises (network, refusal, no model).
SearchParseOutcomes ==
    {[ok |-> FALSE]} \cup {[ok |-> TRUE, dump |-> d] : d \in ParsedSearchResults}

\* Mutant: the merge forgets the test for the empty string.
MergeParams_NoEmptyTest(current, dump) ==
    LET written == {k \in DOMAIN dump : dump[k] /= None}
    IN [k \in DOMAIN current \cup written |->
            IF k \in written THEN dump[k] ELSE current[k]]

\* Mutant: the merged map holds the parsed keys only, not the current ones.
MergeParams_DropsCurrent(current, dump) ==
    LET written == {k \in DOMAIN dump : dump[k] /= None /\ dump[k] /= PyStr("")}
    IN [k \in written |-> dump[k]]

\* query_handler lines 735-738: params = current_params.copy(); overwrite the
\* keys parsed as neither None nor "".
MergeParams(current, dump) ==
    LET written == {k \in DOMAIN dump : dump[k] /= None /\ dump[k] /= PyStr("")}
    IN [k \in DOMAIN current \cup written |->
            IF k \in written THEN dump[k] ELSE current[k]]

\* The places fsq.search returns when it finds any; the last has no id.
SearchPlaces ==
    <<[fsq_place_id |-> "p1", name |-> "Uno"],
      [fsq_place_id |-> "p2", name |-> "Due"],
      [fsq_place_id |-> "", name |-> "Tre"]>>

\* What fsq.photos does for one place: it raises, or returns a list.
PhotoRaises == [raised |-> TRUE, photos |-> <<>>]
PhotoNone == [raised |-> FALSE, photos |-> <<>>]
PhotoFound ==
    [raised |-> FALSE,
     photos |-> <<[prefix |-> "https://img/", suffix |-> "/a.jpg", width |-> 600, height |-> 450]>>]

\* The lookups of one search, by position in the result list.
PhotoLookups ==
    {<<PhotoFound, PhotoFound, PhotoFound>>,
     <<PhotoRaises, PhotoFound, PhotoFound>>,
     <<PhotoNone, PhotoRaises, PhotoFound>>}

\* f"{prefix}{target_w}x{target_h}{suffix}" for the first photo.
ImageUrl(photo) ==
    LET target_w == 300
        target_h == IF photo.width /= 0 /\ photo.height /= 0
                    THEN (target_w * photo.height) \div photo.width
                    ELSE 225
    IN photo.prefix \o NatToStr(target_w) \o "x" \o NatToStr(target_h) \o photo.suffix

\* Mutant: a raising photo lookup ends the loop.
EnrichWithPhotos_Abort(places, lookups) ==
    LET stop == IF \E i \in 1..Len(places) : places[i].fsq_place_id /= "" /\ lookups[i].raised
                THEN CHOOSE i \in 1..Len(places) :
                        /\ places[i].fsq_place_id /= "" /\ lookups[i].raised
                        /\ \A j \in 1..(i - 1) : ~(places[j].fsq_place_id /= "" /\ lookups[j].raised)
                ELSE Len(places) + 1
    IN [i \in 1..Len(places) |->
          IF i >= stop THEN places[i]
          ELSE IF places[i].fsq_place_id = "" \/ Len(lookups[i].photos) = 0
          THEN [fsq_place_id |-> places[i].fsq_place_id, name |-> places[i].name,
                image_url |-> None]
          ELSE [fsq_place_id |-> places[i].fsq_place_id, name |-> places[i].name,
                image_url |-> PyStr(ImageUrl(lookups[i].photos[1]))]]

\* The photo loop: every place gets image_url, None when it has no id, the
\* lookup raises or the list is empty.
EnrichWithPhotos(places, lookups) ==
    [i \in 1..Len(places) |->
        IF places[i].fsq_place_id = "" \/ lookups[i].raised \/ Len(lookups[i].photos) = 0
        THEN [fsq_place_id |-> places[i].fsq_place_id, name |-> places[i].name,
              image_url |-> None]
        ELSE [fsq_place_id |-> places[i].fsq_place_id, name |-> places[i].name,
              image_url |-> PyStr(ImageUrl(lookups[i].photos[1]))]]

\* The number of fsq.photos calls of the loop.
PhotoCalls(places) == Cardinality({i \in 1..Len(places) : places[i].fsq_place_id /= ""})

\* One search: fsq.search raises, returns no result or returns SearchPlaces;
\* with results, the photo lookups, and whether the LLM writes the header and
\* the refine prompt ("header_raises", "prompt_raises": llm.chat raises).
SearchOutcomes ==
    {[kind |-> "error", error |-> "503 Server Error", lookups |-> <<>>, llm |-> "ok"],
     [kind |-> "empty", error |-> "", lookups |-> <<>>, llm |-> "ok"]}
    \cup {[kind |-> "results", error |-> "", lookups |-> l, llm |-> "ok"] : l \in PhotoLookups}
    \cup {[kind |-> "results", error |-> "", lookups |-> <<PhotoFound, PhotoFound, PhotoFound>>,
           llm |-> x] : x \in {"header_raises", "prompt_raises"}}

LlmError == "Connection error."

RECURSIVE PlaceNames(_)
PlaceNames(places) ==
    IF Len(places) = 0 THEN <<>> ELSE <<"<b>" \o places[1].name \o "</b>">> \o PlaceNames(Tail(places))

\* The chat messages of a search with results.
ResultsMessage(places) ==
    [kind |-> "results", text |-> "header\n\n" \o Join(PlaceNames(places), "\n\n")]

ListViewMessage ==
    [kind |-> "list_view",
     text |-> "Want to see these results in a beautiful list view? Tap below!"]

\* Mutant: a failing search is not reported.
SearchFailure_Silent(error) == [state |-> "QUERY", replies |-> <<>>]

\* The except clause of do_foursquare_search: "Error: {e}", back to QUERY.
SearchFailure(error) ==
    [state |-> "QUERY", replies |-> <<[kind |-> "error", text |-> "Error: " \o error]>>]

\* do_foursquare_search (ask_refine = True at every call site): the state it
\* returns, the messages it sends, its fsq.search and fsq.photos calls and
\* the result list after the photo loop.
DoFoursquareSearch(ud, search) ==
    IF "location" \notin DOMAIN ud
    THEN [state |-> "LOCATION", searches |-> 0, photo_calls |-> 0, results |-> <<>>,
          replies |-> <<[kind |-> "text",
                         text |-> "Please share your location first by sending /start."]>>]
    ELSE IF search.kind = "error"
    THEN [state |-> SearchFailure(search.error).state, searches |-> 1, photo_calls |-> 0,
          results |-> <<>>, replies |-> SearchFailure(search.error).replies]
    ELSE IF search.kind = "empty"
    THEN [state |-> "QUERY", searches |-> 1, photo_calls |-> 0, results |-> <<>>,
          replies |-> <<[kind |-> "text",
                         text |-> "No places found with your filters. Type a new query or /start to try again."]>>]
    ELSE LET results == EnrichWithPhotos(SearchPlaces, search.lookups)
             calls == PhotoCalls(SearchPlaces)
         IN IF search.llm = "header_raises"
            THEN [state |-> SearchFailure(LlmError).state, searches |-> 1,
                  photo_calls |-> calls, results |-> results,
                  replies |-> SearchFailure(LlmError).replies]
            ELSE IF search.llm = "prompt_raises"
            THEN [state |-> SearchFailure(LlmError).state, searches |-> 1,
                  photo_calls |-> calls, results |-> results,
                  replies |-> <<ResultsMessage(results), ListViewMessage>>
                              \o SearchFailure(LlmError).replies]
            ELSE [state |-> "REFINE", searches |-> 1, photo_calls |-> calls,
                  results |-> results,
                  replies |-> <<ResultsMessage(results), ListViewMessage,
                                [kind |-> "refine_prompt", text |-> "refine prompt"]>>]

QueryTexts == {"find cheap pizza near me, show now"}

\* query_handler on one text; a raising parser leaves state and data as they
\* were.  reply is the classifier's answer when refine_handler hands the text
\* on, and "" when the text comes from QUERY.
QueryHandling(h, text, parse, search, reply) ==
    IF ~parse.ok
    THEN /\ last' = [handler |-> h, from |-> conv_state, text |-> text,
                     outcome |-> "raised", searches |-> 0, reply |-> reply]
         /\ UNCHANGED <<conv_state, user_data, parsed_log>>
    ELSE LET current == Get(user_data, "search_params", EmptyDict)
             params == MergeParams(current, parse.dump)
             ud == Put(user_data, "search_params", params)
             done == DoFoursquareSearch(ud, search)
         IN /\ user_data' = ud
            /\ parsed_log' = Append(parsed_log, parse.dump)
            /\ conv_state' = done.state
            /\ last' = [handler |-> h, from |-> conv_state, text |-> text,
                        outcome |-> "searched", parsed |-> parse.dump,
                        search |-> search, searches |-> done.searches,
                        photo_calls |-> done.photo_calls, results |-> done.results,
                        replies |-> done.replies, reply |-> reply]

QueryHandler ==
    /\ conv_state = "QUERY"
    /\ Len(parsed_log) < MaxTurns
    /\ \E text \in QueryTexts, parse \in SearchParseOutcomes, search \in SearchOutcomes :
          /\ TextNotCommand(text)
          /\ QueryHandling("query_handler", text, parse, search, "")
    /\ UNCHANGED <<sanVars, csbVars, botVars, extVars>>

\* What the LLM may answer to gpt_refine_intent; "raise" is a failing call.
RefineReplies == {"end", "End", "refine", "end.", "raise"}

\* Mutant: only the answer "end" itself, in lower case, ends.
gpt_refine_intent_Exact(reply) == reply = "end"

\* gpt_refine_intent: the answer in lower case is compared with "end".
gpt_refine_intent(reply) == Lower(reply) = "end"

RefineHandler ==
    /\ conv_state = "REFINE"
    /\ \E text \in QueryTexts, reply \in RefineReplies :
          /\ TextNotCommand(text)
          /\ IF reply = "raise"
             THEN /\ last' = [handler |-> "refine_handler", from |-> conv_state, text |-> text,
                              outcome |-> "raised", searches |-> 0, reply |-> reply]
                  /\ UNCHANGED <<conv_state, user_data, parsed_log>>
             ELSE IF gpt_refine_intent(reply)
             THEN /\ conv_state' = "END"
                  /\ last' = [handler |-> "refine_handler", from |-> conv_state, text |-> text,
                              outcome |-> "end", reply |-> reply, searches |-> 0]
                  /\ UNCHANGED <<user_data, parsed_log>>
             ELSE /\ Len(parsed_log) < MaxTurns
                  /\ \E parse \in SearchParseOutcomes, search \in SearchOutcomes :
                        QueryHandling("refine_handler", text, parse, search, reply)
    /\ UNCHANGED <<sanVars, csbVars, botVars, extVars>>

MenuTexts == {"Search Foursquare data", "Add a new place", "hello"}

LocationChoiceHandler ==
    /\ conv_state = "LOCATION_CHOICE"
    /\ \E text \in MenuTexts :
          /\ TextNotCommand(text)
          /\ LET user_text == Lower(Strip(text))
             IN conv_state' =
                    IF Contains(user_text, "search foursquare data") THEN "QUERY"
                    ELSE IF Contains(user_text, "add a new place") THEN "NAME"
                    ELSE "LOCATION_CHOICE"
          /\ last' = [handler |-> "location_choice_handler", from |-> conv_state, text |-> text]
    /\ UNCHANGED <<user_data, parsed_log>>
    /\ UNCHANGED <<sanVars, csbVars, botVars, extVars>>

\* web_app_data answers a message and returns None: the state stays LOCATION.
WebAppData ==
    /\ conv_state = "LOCATION"
    /\ last' = [handler |-> "web_app_data", from |-> conv_state]
    /\ UNCHANGED <<conv_state, user_data, parsed_log>>
    /\ UNCHANGED <<sanVars, csbVars, botVars, extVars>>

(***************************************************************************)
(* Contribution wizard: name_handler, category_handler, address_handler.   *)
(***************************************************************************)
\* The last text is white space only: filters.TEXT takes every non-empty text.
NameTexts == {"Cafe Uno", " Bar 7 ", "  "}

NameHandler ==
    /\ conv_state = "NAME"
    /\ \E text \in NameTexts :
          /\ TextNotCommand(text)
          /\ user_data' = Put(user_data, "name", Strip(text))
          /\ last' = [handler |-> "name_handler", from |-> conv_state, text |-> text]
    /\ conv_state' = "CATEGORY"
    /\ UNCHANGED parsed_log
    /\ UNCHANGED <<sanVars, csbVars, botVars, extVars>>

\* Entries of the category table the bot loads from its assets file
\* (human-readable name -> category id).
CategoryNameToId ==
    [k \in {"Arcade", "Aquarium"} |->
        IF k = "Arcade" THEN "4bf58dd8d48988d1e1931735" ELSE "4fceea171983d5d06c3e9823"]

CategoryKeyLowerToId ==
    [kl \in {Lower(Strip(k)) : k \in DOMAIN CategoryNameToId} |->
        CategoryNameToId[CHOOSE k \in DOMAIN CategoryNameToId : Lower(Strip(k)) = kl]]

QuoteChars == {"\"", "'"}

RECURSIVE DedupeFrom(_, _)
DedupeFrom(tokens, seen) ==
    IF Len(tokens) = 0 THEN <<>>
    ELSE IF Lower(tokens[1]) \in seen
         THEN DedupeFrom(Tail(tokens), seen)
         ELSE <<tokens[1]>> \o DedupeFrom(Tail(tokens), seen \cup {Lower(tokens[1])})

StripToken(t) == StripSet(Strip(t), QuoteChars)

\* [t.strip() for t in s.split(',') if t.strip()]
StrippedParts(s) == FilterNonEmpty(StripEach(Split(s, ",")))

\* parse_categories_gpt on the CSV the LLM answered.
ParseCategoriesGpt(raw) ==
    DedupeFrom([i \in 1..Len(StrippedParts(raw)) |-> StripToken(StrippedParts(raw)[i])], {})

\* category_handler lines 843-853: map every name, collecting the unknown ones.
\* next(...) on a table key that only matches after strip() raises.
RECURSIVE ValidateCategories(_, _)
ValidateCategories(names, acc) ==
    IF Len(names) = 0 THEN acc
    ELSE LET key == Lower(Strip(names[1]))
         IN IF key \in DOMAIN CategoryKeyLowerToId
            THEN IF \E k \in DOMAIN CategoryNameToId : Lower(k) = key
                 THEN ValidateCategories(Tail(names),
                        [acc EXCEPT !.mapped_ids = Append(@, CategoryKeyLowerToId[key]),
                                    !.accepted_names = Append(@,
                                        CHOOSE k \in DOMAIN CategoryNameToId : Lower(k) = key)])
                 ELSE [acc EXCEPT !.raised = TRUE]
            ELSE ValidateCategories(Tail(names), [acc EXCEPT !.unknown = Append(@, names[1])])

CategoryTexts == {"Arcade, Aquarium", "arcade, not-a-real-category", "skip", "/skip", "hmm"}

\* What the LLM may answer to parse_categories_gpt; "raise" is a failing call.
CategoryReplies == {"raise", "Arcade, Aquarium", "arcade, not-a-real-category", "", "'ARCADE', arcade"}

\* The names category_handler validates: the LLM's, or the text's parts when
\* the LLM call raises (lines 830-840).
CategoryParsedNames(text, reply) ==
    IF reply = "raise" THEN StrippedParts(text) ELSE ParseCategoriesGpt(reply)

CategoryValidation(text, reply) ==
    ValidateCategories(CategoryParsedNames(text, reply),
        [unknown |-> <<>>, mapped_ids |-> <<>>, accepted_names |-> <<>>, raised |-> FALSE])

CategorySkipped(ud) ==
    [state |-> "ADDRESS", outcome |-> "skipped", parsed_names |-> <<>>, unknown |-> <<>>,
     user_data |-> Put(Put(ud, "categories_ids", ""), "categories_names", <<>>)]

CategoryKept(ud, outcome, names, v) ==
    [state |-> "CATEGORY", outcome |-> outcome, parsed_names |-> names,
     unknown |-> v.unknown, user_data |-> ud]

CategoryStored(ud, state, outcome, names, v) ==
    [state |-> state, outcome |-> outcome, parsed_names |-> names, unknown |-> v.unknown,
     user_data |-> Put(Put(ud, "categories_ids", Join(v.mapped_ids, ",")),
                       "categories_names", v.accepted_names)]

IsSkipText(text) == StartsWith(Lower(text), "/skip") \/ Lower(text) = "skip"

\* Mutant: the rejection test forgets the unknown names.
CategoryHandlerResult_AnyMapped(ud, rawtext, reply) ==
    LET text == Strip(rawtext)
        names == CategoryParsedNames(text, reply)
        v == CategoryValidation(text, reply)
    IN IF IsSkipText(text) THEN CategorySkipped(ud)
       ELSE IF v.raised THEN CategoryKept(ud, "raised", names, v)
       ELSE IF Len(v.mapped_ids) = 0 THEN CategoryKept(ud, "rejected", names, v)
       ELSE CategoryStored(ud, "ADDRESS", "accepted", names, v)

\* Mutant: the mapped ids are stored before the rejection test.
CategoryHandlerResult_StoreFirst(ud, rawtext, reply) ==
    LET text == Strip(rawtext)
        names == CategoryParsedNames(text, reply)
        v == CategoryValidation(text, reply)
    IN IF IsSkipText(text) THEN CategorySkipped(ud)
       ELSE IF v.raised THEN CategoryKept(ud, "raised", names, v)
       ELSE IF Len(v.unknown) > 0 \/ Len(v.mapped_ids) = 0
       THEN CategoryStored(ud, "CATEGORY", "rejected", names, v)
       ELSE CategoryStored(ud, "ADDRESS", "accepted", names, v)

\* category_handler: the state returned, the user_data left, and what it saw.
CategoryHandlerResult(ud, rawtext, reply) ==
    LET text == Strip(rawtext)
        names == CategoryParsedNames(text, reply)
        v == CategoryValidation(text, reply)
    IN IF IsSkipText(text) THEN CategorySkipped(ud)
       ELSE IF v.raised THEN CategoryKept(ud, "raised", names, v)
       ELSE IF Len(v.unknown) > 0 \/ Len(v.mapped_ids) = 0
       THEN CategoryKept(ud, "rejected", names, v)
       ELSE CategoryStored(ud, "ADDRESS", "accepted", names, v)

CategoryHandler ==
    /\ conv_state = "CATEGORY"
    /\ \E text \in CategoryTexts, reply \in CategoryReplies :
          /\ TextOrSkip(text)
          /\ LET r == CategoryHandlerResult(user_data, text, reply)
             IN /\ conv_state' = r.state
                /\ user_data' = r.user_data
                /\ last' = [handler |-> "category_handler", from |-> conv_state, text |-> text,
                            outcome |-> r.outcome, parsed_names |-> r.parsed_names,
                            unknown |-> r.unknown]
    /\ UNCHANGED parsed_log
    /\ UNCHANGED <<sanVars, csbVars, botVars, extVars>>

\* AddressParseResult (models.py): the fields of the parsed model.
AddressParseResult(is_valid, address, locality, region, postcode, countryCode) ==
    [is_valid |-> is_valid, address |-> address, locality |-> locality, region |-> region,
     postcode |-> postcode, countryCode |-> countryCode, explanation |-> ""]

\* What parse_address_info_gpt may return; [ok |-> FALSE] is a raising call.
AddressParseOutcomes ==
    {[ok |-> FALSE],
     [ok |-> TRUE, parsed |-> AddressParseResult(FALSE, "", "", "", "", "")],
     [ok |-> TRUE, parsed |-> AddressParseResult(TRUE, "1 Main St", "Springfield", "IL", "62701", "US")],
     [ok |-> TRUE, parsed |-> AddressParseResult(TRUE, "1 Main St", "Springfield", "", "", "")]}

\* Mutant: the handler reads the field the model declares.
AddressCountryCodeAttr_Declared == "countryCode"

\* The attribute address_handler reads for the 'country_code' entry (line 920).
AddressCountryCodeAttr == "country_code"

\* address_fields key -> attribute of the parsed model read for it (lines 915-921).
AddressAttrs ==
    [k \in {"address", "locality", "region", "postcode", "country_code"} |->
        IF k = "country_code" THEN AddressCountryCodeAttr ELSE k]

AddressTexts == {"1 Main St, Springfield IL 62701, US", "skip", "/skip"}

\* address_handler: reading an attribute the model does not have raises
\* AttributeError, which leaves the conversation state and user_data as they were.
AddressHandlerResult(ud, rawtext, parse) ==
    LET user_text == Strip(rawtext)
        lowered == Lower(user_text)
    IN IF Len(user_text) = 0 \/ StartsWith(lowered, "/skip") \/ lowered = "skip"
       THEN [state |-> "ADDRESS", outcome |-> "required", user_data |-> ud]
       ELSE IF ~parse.ok
       THEN [state |-> "ADDRESS", outcome |-> "raised", user_data |-> ud]
       ELSE IF ~parse.parsed.is_valid
       THEN [state |-> "ADDRESS", outcome |-> "invalid", user_data |-> ud]
       ELSE IF \E k \in DOMAIN AddressAttrs : AddressAttrs[k] \notin DOMAIN parse.parsed
       THEN [state |-> "ADDRESS", outcome |-> "raised", user_data |-> ud]
       ELSE [state |-> "COORDINATES", outcome |-> "stored",
             user_data |-> Put(ud, "address_fields",
                               [k \in DOMAIN AddressAttrs |-> parse.parsed[AddressAttrs[k]]])]

AddressHandler ==
    /\ conv_state = "ADDRESS"
    /\ \E text \in AddressTexts, parse \in AddressParseOutcomes :
          /\ TextOrSkip(text)
          /\ LET r == AddressHandlerResult(user_data, text, parse)
             IN /\ conv_state' = r.state
                /\ user_data' = r.user_data
                /\ last' = [handler |-> "address_handler", from |-> conv_state, text |-> text,
                            outcome |-> r.outcome, parse |-> parse]
    /\ UNCHANGED parsed_log
    /\ UNCHANGED <<sanVars, csbVars, botVars, extVars>>

(***************************************************************************)
(* Wizard behind ADDRESS: coordinates_choice_handler,                      *)
(* coordinates_manual_handler, contact_handler.                            *)
(***************************************************************************)
\* bool(v) of a Python value.
Truthy(v) ==
    CASE v.t = "None" -> FALSE
      [] v.t = "bool" -> v.v
      [] v.t = "str" -> Len(v.v) > 0
      [] v.t = "list" -> Len(v.v) > 0
      [] OTHER -> v.v /= 0

DigitChars == {Char(Digits, i) : i \in 1..Len(Digits)}

IsDigits(s) == Len(s) > 0 /\ \A i \in 1..Len(s) : Char(s, i) \in DigitChars

DigitValue(c) == (CHOOSE i \in 1..Len(Digits) : Char(Digits, i) = c) - 1

RECURSIVE DigitsToNat(_, _)
DigitsToNat(s, acc) ==
    IF Len(s) = 0 THEN acc
    ELSE DigitsToNat(SubSeq(s, 2, Len(s)), acc * 10 + DigitValue(Char(s, 1)))

\* float(v) on the values drawn here: numbers and booleans convert, a string
\* converts when it is an optionally signed run of digits, anything else raises.
PyFloatOf(v) ==
    CASE v.t \in {"float", "int"} -> [ok |-> TRUE, v |-> v.v]
      [] v.t = "bool" -> [ok |-> TRUE, v |-> IF v.v THEN 1 ELSE 0]
      [] v.t = "str" ->
            LET t == Strip(v.v)
                neg == StartsWith(t, "-")
                body == IF neg \/ StartsWith(t, "+") THEN SubSeq(t, 2, Len(t)) ELSE t
            IN IF IsDigits(body)
               THEN [ok |-> TRUE, v |-> IF neg THEN 0 - DigitsToNat(body, 0)
                                                ELSE DigitsToNat(body, 0)]
               ELSE [ok |-> FALSE]
      [] OTHER -> [ok |-> FALSE]

CoordinatesChoiceTexts ==
    {"Use my current location", "Enter coordinates", "/skip", "somewhere"}

\* Mutant: /skip is taken and the step left without coordinates.
CoordinatesChoiceHandlerResult_SkipAdvances(ud, rawtext) ==
    LET text == Lower(Strip(rawtext))
    IN IF text \in {"use my current location", "use my location"}
       THEN IF "location" \notin DOMAIN ud
            THEN [state |-> "COORDINATES_MANUAL", outcome |-> "no_location", user_data |-> ud]
            ELSE [state |-> "CONTACT", outcome |-> "current",
                  user_data |-> Put(Put(ud, "coordinates_source", "current"), "coordinates",
                      [latitude |-> ud["location"].latitude,
                       longitude |-> ud["location"].longitude])]
       ELSE IF text \in {"enter coordinates", "enter coordinate", "enter"}
       THEN [state |-> "COORDINATES_MANUAL", outcome |-> "manual", user_data |-> ud]
       ELSE IF text \in {"skip", "/skip"}
       THEN [state |-> "CONTACT", outcome |-> "skipped", user_data |-> ud]
       ELSE [state |-> "COORDINATES", outcome |-> "again", user_data |-> ud]

\* coordinates_choice_handler.
CoordinatesChoiceHandlerResult(ud, rawtext) ==
    LET text == Lower(Strip(rawtext))
    IN IF text \in {"use my current location", "use my location"}
       THEN IF "location" \notin DOMAIN ud
            THEN [state |-> "COORDINATES_MANUAL", outcome |-> "no_location", user_data |-> ud]
            ELSE [state |-> "CONTACT", outcome |-> "current",
                  user_data |-> Put(Put(ud, "coordinates_source", "current"), "coordinates",
                      [latitude |-> ud["location"].latitude,
                       longitude |-> ud["location"].longitude])]
       ELSE IF text \in {"enter coordinates", "enter coordinate", "enter"}
       THEN [state |-> "COORDINATES_MANUAL", outcome |-> "manual", user_data |-> ud]
       ELSE [state |-> "COORDINATES", outcome |-> "again", user_data |-> ud]

CoordinatesChoiceHandler ==
    /\ conv_state = "COORDINATES"
    /\ \E text \in CoordinatesChoiceTexts :
          /\ TextOrSkip(text)
          /\ LET r == CoordinatesChoiceHandlerResult(user_data, text)
             IN /\ conv_state' = r.state
                /\ user_data' = r.user_data
                /\ last' = [handler |-> "coordinates_choice_handler", from |-> conv_state,
                            text |-> text, outcome |-> r.outcome]
    /\ UNCHANGED parsed_log
    /\ UNCHANGED <<sanVars, csbVars, botVars, extVars>>

\* What parse_coordinates_gpt hands back: the JSON the LLM wrote (a failed
\* json.loads gives is_valid false and nulls), or the LLM call raises.
ParsedLatitudes == {None, PyFloat(0 - 91), PyFloat(12), PyFloat(91), PyStr("north")}
ParsedLongitudes == {None, PyFloat(77), PyFloat(181)}

CoordinateParseOutcomes ==
    {[ok |-> FALSE]} \cup
    {[ok |-> TRUE, parsed |-> [is_valid |-> iv, latitude |-> lat, longitude |-> lng]] :
        iv \in {PyBool(TRUE), PyBool(FALSE)}, lat \in ParsedLatitudes, lng \in ParsedLongitudes}

InRange(lat_f, lng_f) ==
    /\ 0 - 90 <= lat_f /\ lat_f <= 90
    /\ 0 - 180 <= lng_f /\ lng_f <= 180

CoordinateTexts == {"12,77", "95,200", "/skip", " skip "}

\* Mutant: the parsed numbers are stored without the range test.
CoordinatesManualHandlerResult_NoRange(ud, rawtext, parse) ==
    LET user_text == Strip(rawtext)
    IN IF Lower(user_text) \in {"/skip", "skip"}
       THEN [state |-> "COORDINATES", outcome |-> "skipped", user_data |-> ud]
       ELSE IF ~parse.ok
       THEN [state |-> "COORDINATES_MANUAL", outcome |-> "raised", user_data |-> ud]
       ELSE LET lat == parse.parsed.latitude
                lng == parse.parsed.longitude
            IN IF ~Truthy(parse.parsed.is_valid) \/ lat = None \/ lng = None
               THEN [state |-> "COORDINATES", outcome |-> "unparsed", user_data |-> ud]
               ELSE IF ~PyFloatOf(lat).ok \/ ~PyFloatOf(lng).ok
               THEN [state |-> "COORDINATES", outcome |-> "out_of_range", user_data |-> ud]
               ELSE [state |-> "CONTACT", outcome |-> "stored",
                     user_data |-> Put(Put(ud, "coordinates_source", "manual"), "coordinates",
                         [latitude |-> PyFloatOf(lat).v, longitude |-> PyFloatOf(lng).v])]

\* coordinates_manual_handler.  A raise inside the handler leaves the state.
CoordinatesManualHandlerResult(ud, rawtext, parse) ==
    LET user_text == Strip(rawtext)
    IN IF Lower(user_text) \in {"/skip", "skip"}
       THEN [state |-> "COORDINATES", outcome |-> "skipped", user_data |-> ud]
       ELSE IF ~parse.ok
       THEN [state |-> "COORDINATES_MANUAL", outcome |-> "raised", user_data |-> ud]
       ELSE LET lat == parse.parsed.latitude
                lng == parse.parsed.longitude
            IN IF ~Truthy(parse.parsed.is_valid) \/ lat = None \/ lng = None
               THEN [state |-> "COORDINATES", outcome |-> "unparsed", user_data |-> ud]
               ELSE IF ~PyFloatOf(lat).ok \/ ~PyFloatOf(lng).ok
                       \/ ~InRange(PyFloatOf(lat).v, PyFloatOf(lng).v)
               THEN [state |-> "COORDINATES", outcome |-> "out_of_range", user_data |-> ud]
               ELSE [state |-> "CONTACT", outcome |-> "stored",
                     user_data |-> Put(Put(ud, "coordinates_source", "manual"), "coordinates",
                         [latitude |-> PyFloatOf(lat).v, longitude |-> PyFloatOf(lng).v])]

CoordinatesManualHandler ==
    /\ conv_state = "COORDINATES_MANUAL"
    /\ \E text \in CoordinateTexts, parse \in CoordinateParseOutcomes :
          /\ TextOrSkip(text)
          /\ LET r == CoordinatesManualHandlerResult(user_data, text, parse)
             IN /\ conv_state' = r.state
                /\ user_data' = r.user_data
                /\ last' = [handler |-> "coordinates_manual_handler", from |-> conv_state,
                            text |-> text, outcome |-> r.outcome, parse |-> parse]
    /\ UNCHANGED parsed_log
    /\ UNCHANGED <<sanVars, csbVars, botVars, extVars>>

ContactKeys == {"phone", "website", "email", "facebookUrl", "instagram", "twitter"}

\* UserInputClassifier as parse_contact_info_gpt returns it, or a raise.
ContactParseOutcomes ==
    {[ok |-> FALSE],
     [ok |-> TRUE, is_valid |-> FALSE, phone |-> "", website |-> ""],
     [ok |-> TRUE, is_valid |-> TRUE, phone |-> "5551234", website |-> ""],
     [ok |-> TRUE, is_valid |-> TRUE, phone |-> "", website |-> ""]}

ContactTexts == {"call 5551234", "/skip", "Skip"}

ContactHandlerResult(ud, rawtext, result) ==
    LET user_text == Strip(rawtext)
    IN IF Lower(user_text) \in {"skip", "/skip"}
       THEN [state |-> "HOURS", outcome |-> "skipped", user_data |-> Put(ud, "contact", EmptyDict)]
       ELSE IF ~result.ok
       THEN [state |-> "CONTACT", outcome |-> "raised", user_data |-> ud]
       ELSE IF ~result.is_valid
       THEN [state |-> "CONTACT", outcome |-> "invalid", user_data |-> ud]
       ELSE [state |-> "HOURS", outcome |-> "stored",
             user_data |-> Put(ud, "contact",
                 [k \in ContactKeys |->
                    CASE k = "phone" -> result.phone
                      [] k = "website" -> result.website
                      [] OTHER -> ""])]

ContactHandler ==
    /\ conv_state = "CONTACT"
    /\ \E text \in ContactTexts, result \in ContactParseOutcomes :
          /\ TextOrSkip(text)
          /\ LET r == ContactHandlerResult(user_data, text, result)
             IN /\ conv_state' = r.state
                /\ user_data' = r.user_data
                /\ last' = [handler |-> "contact_handler", from |-> conv_state,
                            text |-> text, outcome |-> r.outcome]
    /\ UNCHANGED parsed_log
    /\ UNCHANGED <<sanVars, csbVars, botVars, extVars>>

(***************************************************************************)
(* hours_handler, custom_hours_handler, attributes_handler,                *)
(* private_place_handler with confirm_data.                                *)
(***************************************************************************)
\* ";".join(f"{day},0000,2400" for day in range(1, 8))
hours_247 ==
    Join([day \in 1..7 |-> Char(Digits, day + 1) \o ",0000,2400"], ";")

HoursTexts == {"Open 24/7", "Custom Hours", "/skip", "later"}

\* Mutant: /skip leaves HOURS for PRIVATE_PLACE, past ATTRIBUTES.
HoursHandlerResult_SkipsAttributes(ud, rawtext) ==
    LET user_choice == Lower(Strip(rawtext))
    IN IF StartsWith(user_choice, "/skip") \/ user_choice = "skip"
       THEN [state |-> "PRIVATE_PLACE", outcome |-> "skipped", user_data |-> Put(ud, "hours_api", "")]
       ELSE IF Contains(user_choice, "open 24/7")
       THEN [state |-> "ATTRIBUTES", outcome |-> "always", user_data |-> Put(ud, "hours_api", hours_247)]
       ELSE IF Contains(user_choice, "custom hours")
       THEN [state |-> "CUSTOM_HOURS", outcome |-> "custom", user_data |-> ud]
       ELSE [state |-> "HOURS", outcome |-> "none", user_data |-> ud]

\* hours_handler returns None for a text it does not know: the state stays.
HoursHandlerResult(ud, rawtext) ==
    LET user_choice == Lower(Strip(rawtext))
    IN IF StartsWith(user_choice, "/skip") \/ user_choice = "skip"
       THEN [state |-> "ATTRIBUTES", outcome |-> "skipped", user_data |-> Put(ud, "hours_api", "")]
       ELSE IF Contains(user_choice, "open 24/7")
       THEN [state |-> "ATTRIBUTES", outcome |-> "always", user_data |-> Put(ud, "hours_api", hours_247)]
       ELSE IF Contains(user_choice, "custom hours")
       THEN [state |-> "CUSTOM_HOURS", outcome |-> "custom", user_data |-> ud]
       ELSE [state |-> "HOURS", outcome |-> "none", user_data |-> ud]

HoursHandler ==
    /\ conv_state = "HOURS"
    /\ \E text \in HoursTexts :
          /\ TextOrSkip(text)
          /\ LET r == HoursHandlerResult(user_data, text)
             IN /\ conv_state' = r.state
                /\ user_data' = r.user_data
                /\ last' = [handler |-> "hours_handler", from |-> conv_state,
                            text |-> text, outcome |-> r.outcome]
    /\ UNCHANGED parsed_log
    /\ UNCHANGED <<sanVars, csbVars, botVars, extVars>>

\* parse_hours_to_api_gpt: the keys of the JSON the LLM wrote, or a raise:
\* json.loads raises on a response that is not JSON (a missing key and a
\* failing LLM call raise likewise).
HoursParseOutcomes ==
    {[ok |-> FALSE, cause |-> "response is not JSON"],
     [ok |-> TRUE, is_valid |-> FALSE, hours |-> ""],
     [ok |-> TRUE, is_valid |-> TRUE, hours |-> ""],
     [ok |-> TRUE, is_valid |-> TRUE, hours |-> "1,0900,1800;"],
     [ok |-> TRUE, is_valid |-> TRUE, hours |-> ";"],
     [ok |-> TRUE, is_valid |-> TRUE, hours |-> " "]}

CustomHoursTexts == {"Mon 9-6", "/skip"}

CustomHoursHandlerResult(ud, rawtext, parsed) ==
    LET user_text == Strip(rawtext)
    IN IF Lower(user_text) \in {"/skip", "skip"}
       THEN [state |-> "ATTRIBUTES", outcome |-> "skipped", user_data |-> Put(ud, "hours_api", "")]
       ELSE IF ~parsed.ok
       THEN [state |-> "CUSTOM_HOURS", outcome |-> "raised", user_data |-> ud]
       ELSE IF ~parsed.is_valid \/ Len(parsed.hours) = 0
       THEN [state |-> "CUSTOM_HOURS", outcome |-> "invalid", user_data |-> ud]
       ELSE [state |-> "ATTRIBUTES", outcome |-> "stored",
             user_data |-> Put(ud, "hours_api", parsed.hours)]

CustomHoursHandler ==
    /\ conv_state = "CUSTOM_HOURS"
    /\ \E text \in CustomHoursTexts, parsed \in HoursParseOutcomes :
          /\ TextOrSkip(text)
          /\ LET r == CustomHoursHandlerResult(user_data, text, parsed)
             IN /\ conv_state' = r.state
                /\ user_data' = r.user_data
                /\ last' = [handler |-> "custom_hours_handler", from |-> conv_state,
                            text |-> text, outcome |-> r.outcome, parsed |-> parsed]
    /\ UNCHANGED parsed_log
    /\ UNCHANGED <<sanVars, csbVars, botVars, extVars>>

\* _ATTR_MAP, two of its eight entries; the labels stand without their emoji.
_ATTR_MAP == [label \in {"ATM", "WiFi"} |-> IF label = "ATM" THEN "atm" ELSE "wifi"]

DoneLabel == "Done"

AttributeTexts == {"ATM", "Pool", DoneLabel}

\* Mutant: a text that is no table label is kept as its own token.
RECURSIVE MappedTokens_KeepUnknown(_)
MappedTokens_KeepUnknown(labels) ==
    IF Len(labels) = 0 THEN <<>>
    ELSE IF labels[1] \in DOMAIN _ATTR_MAP
         THEN <<_ATTR_MAP[labels[1]]>> \o MappedTokens_KeepUnknown(Tail(labels))
         ELSE <<labels[1]>> \o MappedTokens_KeepUnknown(Tail(labels))

RECURSIVE MappedTokens(_)
MappedTokens(labels) ==
    IF Len(labels) = 0 THEN <<>>
    ELSE IF labels[1] \in DOMAIN _ATTR_MAP
         THEN <<_ATTR_MAP[labels[1]]>> \o MappedTokens(Tail(labels))
         ELSE MappedTokens(Tail(labels))

AttributesHandlerResult(ud, text) ==
    IF text = DoneLabel
    THEN [state |-> "PRIVATE_PLACE", outcome |-> "done",
          user_data |-> Put(ud, "attributes_tokens", MappedTokens(Get(ud, "attributes", <<>>)))]
    ELSE [state |-> "ATTRIBUTES", outcome |-> "selected",
          user_data |-> Put(ud, "attributes", Append(Get(ud, "attributes", <<>>), text))]

AttributesHandler ==
    /\ conv_state = "ATTRIBUTES"
    /\ \E text \in AttributeTexts :
          /\ TextNotCommand(text)
          /\ text /= DoneLabel => Len(Get(user_data, "attributes", <<>>)) < MaxAttributes
          /\ LET r == AttributesHandlerResult(user_data, text)
             IN /\ conv_state' = r.state
                /\ user_data' = r.user_data
                /\ last' = [handler |-> "attributes_handler", from |-> conv_state,
                            text |-> text, outcome |-> r.outcome]
    /\ UNCHANGED parsed_log
    /\ UNCHANGED <<sanVars, csbVars, botVars, extVars>>

PrivatePlaceTexts == {"Yes", "no", "/skip", "maybe"}

\* private_place_handler; confirm_data only replies and returns CONFIRM.
PrivatePlaceHandlerResult(ud, rawtext) ==
    LET text == Lower(Strip(rawtext))
    IN IF text \in {"/skip", "skip"}
       THEN [state |-> "CONFIRM", outcome |-> "skipped", user_data |-> Put(ud, "is_private", None)]
       ELSE IF text \in {"yes", "y"}
       THEN [state |-> "CONFIRM", outcome |-> "yes", user_data |-> Put(ud, "is_private", PyBool(TRUE))]
       ELSE IF text \in {"no", "n"}
       THEN [state |-> "CONFIRM", outcome |-> "no", user_data |-> Put(ud, "is_private", PyBool(FALSE))]
       ELSE [state |-> "PRIVATE_PLACE", outcome |-> "again", user_data |-> ud]

PrivatePlaceHandler ==
    /\ conv_state = "PRIVATE_PLACE"
    /\ \E text \in PrivatePlaceTexts :
          /\ TextOrSkip(text)
          /\ LET r == PrivatePlaceHandlerResult(user_data, text)
             IN /\ conv_state' = r.state
                /\ user_data' = r.user_data
                /\ last' = [handler |-> "private_place_handler", from |-> conv_state,
                            text |-> text, outcome |-> r.outcome]
    /\ UNCHANGED parsed_log
    /\ UNCHANGED <<sanVars, csbVars, botVars, extVars>>

(***************************************************************************)
(* _is_valid_categories, _sanitize_suggest_params, handle_confirmation.    *)
(***************************************************************************)
\* str(v) of a Python value (floats here are whole numbers; lists hold strings).
PyStrOf(v) ==
    CASE v.t = "None" -> "None"
      [] v.t = "str" -> v.v
      [] v.t = "bool" -> IF v.v THEN "True" ELSE "False"
      [] v.t = "int" -> IntToStr(v.v)
      [] v.t = "float" -> IntToStr(v.v) \o ".0"
      [] v.t = "list" -> "[" \o Join([i \in 1..Len(v.v) |-> "'" \o v.v[i] \o "'"], ", ") \o "]"

_is_valid_categories(value) ==
    LET tokens == FilterNonEmpty(StripEach(Split(PyStrOf(value), ",")))
    IN Len(tokens) > 0 /\ \A i \in 1..Len(tokens) : IsAlnum(tokens[i])

\* Mutant: one more key is let through.
allowed_keys_WithChains ==
    {"name", "categories", "address", "locality", "region", "postcode", "country_code",
     "latitude", "longitude", "parentId", "isPrivatePlace", "tel", "website",
     "email", "facebookUrl", "instagram", "twitter", "hours", "attributes", "dry_run",
     "chains"}

allowed_keys ==
    {"name", "categories", "address", "locality", "region", "postcode", "country_code",
     "latitude", "longitude", "parentId", "isPrivatePlace", "tel", "website",
     "email", "facebookUrl", "instagram", "twitter", "hours", "attributes", "dry_run"}

\* Mutant: the boolean is written as str() gives it.
BoolToLowerString_Str(params, k) ==
    IF k \in DOMAIN params /\ params[k].t = "bool"
    THEN Put(params, k, PyStr(IF params[k].v THEN "True" ELSE "False"))
    ELSE params

BoolToLowerString(params, k) ==
    IF k \in DOMAIN params /\ params[k].t = "bool"
    THEN Put(params, k, PyStr(IF params[k].v THEN "true" ELSE "false"))
    ELSE params

FloatOrPop(params, k) ==
    IF k \notin DOMAIN params THEN params
    ELSE IF PyFloatOf(params[k]).ok
         THEN Put(params, k, PyFloat(PyFloatOf(params[k]).v))
         ELSE Pop(params, k)

_sanitize_suggest_params(raw) ==
    LET kept == [k \in DOMAIN raw \cap allowed_keys |-> raw[k]]
        nonempty == [k \in {x \in DOMAIN kept :
                              kept[x] \notin {None, PyStr(""), PyList(<<>>)}} |-> kept[k]]
        cats == IF "categories" \in DOMAIN nonempty
                   /\ ~_is_valid_categories(nonempty["categories"])
                THEN Pop(nonempty, "categories") ELSE nonempty
        bools == BoolToLowerString(BoolToLowerString(cats, "isPrivatePlace"), "dry_run")
        floats == FloatOrPop(FloatOrPop(bools, "latitude"), "longitude")
    IN IF "hours" \in DOMAIN floats
       THEN Put(floats, "hours", PyStr(StripSet(Strip(PyStrOf(floats["hours"])), {";"})))
       ELSE floats

PutIf(d, cond, k, v) == IF cond THEN Put(d, k, v) ELSE d

AddressKeys == {"address", "locality", "region", "postcode", "country_code"}

\* The entries handle_confirmation copies from a dict when they are truthy.
CopyTruthy(params, src, keys) ==
    [k \in DOMAIN params \cup {x \in keys \cap DOMAIN src : Len(src[x]) > 0} |->
        IF k \in keys \cap DOMAIN src /\ Len(src[k]) > 0 THEN PyStr(src[k]) ELSE params[k]]

ContactParamKey(k) == IF k = "phone" THEN "tel" ELSE k

\* handle_confirmation lines 1355-1397: the raw params built from user_data.
BuildSuggestParams(data) ==
    LET address_fields == Get(data, "address_fields", EmptyDict)
        contact == Get(data, "contact", EmptyDict)
        coords_src == Get(data, "coordinates_source", "")
        p_name == Put(EmptyDict, "name", PyStr(Get(data, "name", "")))
        p_cat == PutIf(p_name, Len(Get(data, "categories_ids", "")) > 0,
                       "categories", PyStr(Get(data, "categories_ids", "")))
        p_addr == CopyTruthy(p_cat, address_fields, AddressKeys)
        p_coord ==
            IF coords_src = "manual" /\ "coordinates" \in DOMAIN data
            THEN Put(Put(p_addr, "latitude", PyFloat(data["coordinates"].latitude)),
                     "longitude", PyFloat(data["coordinates"].longitude))
            ELSE IF coords_src = "current" /\ "location" \in DOMAIN data
            THEN Put(Put(p_addr, "latitude", PyFloat(data["location"].latitude)),
                     "longitude", PyFloat(data["location"].longitude))
            ELSE p_addr
        p_priv == PutIf(p_coord, Get(data, "is_private", None) /= None,
                        "isPrivatePlace", Get(data, "is_private", None))
        p_contact ==
            [k \in DOMAIN p_priv \cup
                   {ContactParamKey(x) : x \in {y \in DOMAIN contact : Len(contact[y]) > 0}} |->
                IF \E x \in DOMAIN contact : ContactParamKey(x) = k /\ Len(contact[x]) > 0
                THEN PyStr(contact[CHOOSE x \in DOMAIN contact : ContactParamKey(x) = k])
                ELSE p_priv[k]]
        p_hours == PutIf(p_contact, Len(Get(data, "hours_api", "")) > 0,
                         "hours", PyStr(Get(data, "hours_api", "")))
        p_attr == PutIf(p_hours, Len(Get(data, "attributes_tokens", <<>>)) > 0,
                        "attributes", PyStr(Join(Get(data, "attributes_tokens", <<>>), ",")))
    IN Put(p_attr, "dry_run", PyBool(FALSE))

CallbackData == {"confirm_yes", "confirm_no"}

\* What fsq.suggest_place does with the request: it returns, or it raises an
\* exception whose str() is `error`; an HTTPError carries the server's body.
SuggestOutcomes ==
    {[raised |-> FALSE, error |-> "", http |-> FALSE, body |-> ""],
     [raised |-> TRUE, error |-> "400 Client Error", http |-> TRUE, body |-> "invalid hours"],
     [raised |-> TRUE, error |-> "Read timed out", http |-> FALSE, body |-> ""]}

AcceptedMessage ==
    "Your request for a new place has been accepted successfully!\n\nStart a new conversation by typing\n/start"

FailedMessage ==
    "Your request for a new place could not be processed. Please try again later."

StartOverMessage == "Okay, let's start over. Please type /start again"

\* Mutant: a failed call is repeated once.
SuggestPlaceCalls_Retry(data, resp) ==
    IF data = "confirm_yes" THEN (IF resp.raised THEN 2 ELSE 1) ELSE 0

\* The number of fsq.suggest_place calls one callback makes.
SuggestPlaceCalls(data, resp) == IF data = "confirm_yes" THEN 1 ELSE 0

\* Mutant: the failure message quotes the exception.
ConfirmationReplies_WithError(data, resp) ==
    IF data = "confirm_yes"
    THEN (IF resp.raised THEN <<FailedMessage \o " (" \o resp.error \o ")">>
          ELSE <<AcceptedMessage>>)
    ELSE <<StartOverMessage>>

\* The chat messages one callback sends.
ConfirmationReplies(data, resp) ==
    IF data = "confirm_yes"
    THEN (IF resp.raised THEN <<FailedMessage>> ELSE <<AcceptedMessage>>)
    ELSE <<StartOverMessage>>

\* The extra fields of the logger.error record of a failed call.
ConfirmationErrorLog(data, resp) ==
    IF data = "confirm_yes" /\ resp.raised
    THEN <<[error |-> resp.error, response_text |-> IF resp.http THEN resp.body ELSE ""]>>
    ELSE <<>>

\* Both branches of handle_confirmation return ConversationHandler.END.
ConfirmationNextState(data) == "END"

\* handle_confirmation: on confirm_yes the sanitized params go to
\* fsq.suggest_place (which may raise, and the except clause replies);
\* either way the conversation ends.
HandleConfirmation ==
    /\ conv_state = "CONFIRM"
    /\ \E data \in CallbackData, resp \in SuggestOutcomes :
          /\ data # "confirm_yes" => ~resp.raised
          /\ last' = IF data = "confirm_yes"
                     THEN [handler |-> "handle_confirmation", from |-> conv_state, data |-> data,
                           params |-> BuildSuggestParams(user_data),
                           safe_params |-> _sanitize_suggest_params(BuildSuggestParams(user_data)),
                           suggest_place |-> resp,
                           suggest_calls |-> SuggestPlaceCalls(data, resp),
                           replies |-> ConfirmationReplies(data, resp),
                           error_log |-> ConfirmationErrorLog(data, resp),
                           raises |-> FALSE]
                     ELSE [handler |-> "handle_confirmation", from |-> conv_state, data |-> data,
                           suggest_calls |-> SuggestPlaceCalls(data, resp),
                           replies |-> ConfirmationReplies(data, resp),
                           error_log |-> ConfirmationErrorLog(data, resp),
                           raises |-> FALSE]
          /\ conv_state' = ConfirmationNextState(data)
    /\ UNCHANGED <<user_data, parsed_log>>
    /\ UNCHANGED <<sanVars, csbVars, botVars, extVars>>

Init ==
    /\ conv_state = "END"
    /\ user_data = EmptyDict
    /\ parsed_log = <<>>
    /\ last = [handler |-> "none"]
    /\ san_pc = "idle"
    /\ san_raw = EmptyDict
    /\ san_out = EmptyDict
    /\ csb_state = "END"
    /\ csb_user_data = EmptyDict
    /\ csb_last = [handler |-> "none"]
    /\ bot_state = "END"
    /\ bot_user_data = EmptyDict
    /\ bot_last = [handler |-> "none"]
    /\ InitExt

Next ==
    \/ Start
    \/ Cancel
    \/ LocationHandler
    \/ WebAppData
    \/ LocationChoiceHandler
    \/ QueryHandler
    \/ RefineHandler
    \/ NameHandler
    \/ CategoryHandler
    \/ AddressHandler

Spec == Init /\ [][Next]_vars

(***************************************************************************)
(* The wizard behind ADDRESS, taken up in COORDINATES with the user_data   *)
(* the NAME, CATEGORY and ADDRESS steps write (address_handler lines       *)
(* 915-921).                                                               *)
(***************************************************************************)
DraftNames == {"Cafe", ""}

DraftCategories ==
    {[ids |-> "", names |-> <<>>],
     [ids |-> "4bf58dd8d48988d1e1931735", names |-> <<"Arcade">>]}

DraftAddresses ==
    {[address |-> "1 Main St", locality |-> "Springfield", region |-> "IL",
      postcode |-> "62701", country_code |-> "US"],
     [address |-> "1 Main St", locality |-> "", region |-> "",
      postcode |-> "", country_code |-> "US"]}

Draft(loc, name, cat, addr) ==
    LET base == Put(Put(Put(Put(Put(EmptyDict, "search_params", EmptyDict),
                    "name", name), "categories_ids", cat.ids),
                    "categories_names", cat.names), "address_fields", addr)
    IN IF loc = None THEN base ELSE Put(base, "location", loc)

\* The attributes list an earlier wizard run of the same chat left in
\* user_data (attributes_handler line 1233): none, or the label "WiFi", which
\* is not among the labels sent in this run (AttributeTexts).
EarlierAttributes == {<<>>, <<"WiFi">>}

InitWizard ==
    /\ conv_state = "COORDINATES"
    /\ \E loc \in Locations \cup {None}, name \in DraftNames,
          cat \in DraftCategories, addr \in DraftAddresses,
          earlier \in EarlierAttributes :
          user_data = IF earlier = <<>>
                      THEN Draft(loc, name, cat, addr)
                      ELSE Put(Draft(loc, name, cat, addr), "attributes", earlier)
    /\ parsed_log = <<>>
    /\ last = [handler |-> "none"]
    /\ san_pc = "idle"
    /\ san_raw = EmptyDict
    /\ san_out = EmptyDict
    /\ csb_state = "END"
    /\ csb_user_data = EmptyDict
    /\ csb_last = [handler |-> "none"]
    /\ bot_state = "END"
    /\ bot_user_data = EmptyDict
    /\ bot_last = [handler |-> "none"]
    /\ InitExt

NextWizard ==
    \/ CoordinatesChoiceHandler
    \/ CoordinatesManualHandler
    \/ ContactHandler
    \/ HoursHandler
    \/ CustomHoursHandler
    \/ AttributesHandler
    \/ PrivatePlaceHandler
    \/ HandleConfirmation
    \/ Cancel
    \/ Start

SpecWizard == InitWizard /\ [][NextWizard]_vars

(***************************************************************************)
(* _sanitize_suggest_params applied to raw maps built key by key.          *)
(***************************************************************************)
RawKeys ==
    {"name", "categories", "latitude", "isPrivatePlace", "dry_run", "hours",
     "parentId", "chains", "limit"}

RawValues ==
    {None, PyStr(""), PyStr("a1"), PyStr("a b"), PyStr(" 12;"), PyBool(TRUE),
     PyBool(FALSE), PyFloat(12), PyList(<<>>)}

SanAddKey ==
    /\ san_pc = "idle"
    /\ Cardinality(DOMAIN san_raw) < MaxRawKeys
    /\ \E k \in RawKeys \ DOMAIN san_raw, v \in RawValues :
          san_raw' = Put(san_raw, k, v)
    /\ UNCHANGED <<san_pc, san_out>>
    /\ UNCHANGED <<convVars, csbVars, botVars, extVars>>

SanApply ==
    /\ san_pc = "idle"
    /\ san_out' = _sanitize_suggest_params(san_raw)
    /\ san_pc' = "done"
    /\ UNCHANGED san_raw
    /\ UNCHANGED <<convVars, csbVars, botVars, extVars>>

SanReset ==
    /\ san_pc = "done"
    /\ san_pc' = "idle"
    /\ san_raw' = EmptyDict
    /\ san_out' = EmptyDict
    /\ UNCHANGED <<convVars, csbVars, botVars, extVars>>

NextSanitize == SanAddKey \/ SanApply \/ SanReset

SpecSanitize == Init /\ [][NextSanitize]_vars

(***************************************************************************)
(* conversational_search_bot.py: its ConversationHandler and the add-place *)
(* wizard NAME .. PHOTOS .. CONFIRM over csb_user_data.                    *)
(***************************************************************************)
CsbSet(handler, state, ud) ==
    /\ csb_state' = state
    /\ csb_user_data' = ud
    /\ csb_last' = [handler |-> handler, from |-> csb_state]
    /\ UNCHANGED <<convVars, sanVars, botVars, extVars>>

\* /start is the entry point and a fallback: it is taken in every state.
CsbStart ==
    /\ csb_state' = "LOCATION"
    /\ csb_last' = [handler |-> "start", from |-> csb_state]
    /\ UNCHANGED csb_user_data
    /\ UNCHANGED <<convVars, sanVars, botVars, extVars>>

CsbCancel ==
    /\ csb_state /= "END"
    /\ CsbSet("cancel", "END", csb_user_data)

CsbLocationHandler ==
    /\ csb_state = "LOCATION"
    /\ \E loc \in Locations :
          CsbSet("location_handler", "LOCATION_CHOICE",
                 Put(Put(csb_user_data, "location", loc), "search_params", EmptyDict))

CsbLocationChoice(rawtext) ==
    LET user_text == Lower(Strip(rawtext))
    IN IF Contains(user_text, "search foursquare data") THEN "QUERY"
       ELSE IF Contains(user_text, "add a new place") THEN "NAME"
       ELSE "LOCATION_CHOICE"

CsbLocationChoiceHandler ==
    /\ csb_state = "LOCATION_CHOICE"
    /\ \E text \in MenuTexts :
          /\ TextNotCommand(text)
          /\ CsbSet("location_choice_handler", CsbLocationChoice(text), csb_user_data)

CsbNameHandler ==
    /\ csb_state = "NAME"
    /\ \E text \in {"Cafe"} :
          CsbSet("name_handler", "CATEGORY", Put(csb_user_data, "name", text))

CsbCategoryHandler ==
    /\ csb_state = "CATEGORY"
    /\ \E text \in {"Cafe"} :
          CsbSet("category_handler", "ADDRESS", Put(csb_user_data, "category", text))

CsbAddressHandler ==
    /\ csb_state = "ADDRESS"
    /\ \E text \in {"1 Main St"} :
          CsbSet("address_handler", "CONTACT", Put(csb_user_data, "address", text))

CsbContactResult(ud, rawtext, result) ==
    IF Lower(Strip(rawtext)) = "skip" THEN [state |-> "HOURS", user_data |-> ud]
    ELSE IF ~result.ok \/ ~result.is_valid THEN [state |-> "CONTACT", user_data |-> ud]
    ELSE [state |-> "HOURS",
          user_data |-> Put(ud, "contact",
              [phone |-> result.phone, website |-> result.website, email |-> ""])]

CsbContactHandler ==
    /\ csb_state = "CONTACT"
    /\ \E text \in {"call 5551234", "Skip"}, result \in ContactParseOutcomes :
          LET r == CsbContactResult(csb_user_data, text, result)
          IN CsbSet("contact_handler", r.state, r.user_data)

CsbHoursResult(ud, rawtext) ==
    LET user_choice == Lower(Strip(rawtext))
    IN IF Contains(user_choice, "open 24/7")
       THEN [state |-> "CHAIN_STATUS", user_data |-> Put(ud, "hours", "Open 24/7")]
       ELSE IF Contains(user_choice, "custom hours")
       THEN [state |-> "CUSTOM_HOURS", user_data |-> ud]
       ELSE [state |-> "HOURS", user_data |-> ud]

CsbHoursHandler ==
    /\ csb_state = "HOURS"
    /\ \E text \in {"Open 24/7", "Custom Hours", "later"} :
          LET r == CsbHoursResult(csb_user_data, text)
          IN CsbSet("hours_handler", r.state, r.user_data)

\* parse_hours_info_gpt: raise, is_valid false, or normalized hours.
CsbHoursParseOutcomes ==
    {[ok |-> FALSE],
     [ok |-> TRUE, is_valid |-> FALSE, normalized_hours |-> ""],
     [ok |-> TRUE, is_valid |-> TRUE, normalized_hours |-> "Mon-Fri 9:00 AM - 6:00 PM"]}

CsbCustomHoursHandler ==
    /\ csb_state = "CUSTOM_HOURS"
    /\ \E result \in CsbHoursParseOutcomes :
          IF result.ok /\ result.is_valid
          THEN CsbSet("custom_hours_handler", "CHAIN_STATUS",
                      Put(csb_user_data, "hours", result.normalized_hours))
          ELSE CsbSet("custom_hours_handler", "CUSTOM_HOURS", csb_user_data)

CsbChainStatusHandler ==
    /\ csb_state = "CHAIN_STATUS"
    /\ \E data \in {"chain_yes", "chain_no"} :
          CsbSet("chain_status_handler", "ATTRIBUTES",
                 Put(csb_user_data, "is_chain", data = "chain_yes"))

CsbAttributesHandler ==
    /\ csb_state = "ATTRIBUTES"
    /\ \E text \in {"ATM", DoneLabel} :
          IF text = DoneLabel
          THEN CsbSet("attributes_handler", "PHOTOS", csb_user_data)
          ELSE /\ Len(Get(csb_user_data, "attributes", <<>>)) < MaxAttributes
               /\ CsbSet("attributes_handler", "ATTRIBUTES",
                         Put(csb_user_data, "attributes",
                             Append(Get(csb_user_data, "attributes", <<>>), text)))

PhotoUpdates == {[photo |-> "file1"], [text |-> "/skip"], [text |-> "/done"]}

\* photos_handler (the same code in conversational_search_bot.py, bot.py and
\* placemaker_bot/telegram_handlers.py); confirm_data only replies.
PhotosHandlerResult(ud, update) ==
    LET with_list == IF "photos" \in DOMAIN ud THEN ud ELSE Put(ud, "photos", <<>>)
    IN IF "photo" \in DOMAIN update
       THEN LET ud2 == Put(with_list, "photos", Append(with_list["photos"], update.photo))
            IN [state |-> IF Len(ud2["photos"]) >= 3 THEN "CONFIRM" ELSE "PHOTOS",
                user_data |-> ud2]
       ELSE [state |-> "CONFIRM", user_data |-> with_list]

CsbPhotosHandler ==
    /\ csb_state = "PHOTOS"
    /\ \E update \in PhotoUpdates :
          /\ "photo" \in DOMAIN update => Len(Get(csb_user_data, "photos", <<>>)) < MaxPhotos
          /\ LET r == PhotosHandlerResult(csb_user_data, update)
             IN /\ csb_state' = r.state
                /\ csb_user_data' = r.user_data
                /\ csb_last' = [handler |-> "photos_handler", from |-> csb_state,
                                update |-> update]
    /\ UNCHANGED <<convVars, sanVars, botVars, extVars>>

CsbHandleConfirmation ==
    /\ csb_state = "CONFIRM"
    /\ \E data \in CallbackData :
          CsbSet("handle_confirmation", "END", csb_user_data)

NextCsb ==
    \/ CsbStart
    \/ CsbCancel
    \/ CsbLocationHandler
    \/ CsbLocationChoiceHandler
    \/ CsbNameHandler
    \/ CsbCategoryHandler
    \/ CsbAddressHandler
    \/ CsbContactHandler
    \/ CsbHoursHandler
    \/ CsbCustomHoursHandler
    \/ CsbChainStatusHandler
    \/ CsbAttributesHandler
    \/ CsbPhotosHandler
    \/ CsbHandleConfirmation

SpecCsb == Init /\ [][NextCsb]_vars

(***************************************************************************)
(* bot.py: /start, the location menu and the search filters               *)
(* (filter_choice_handler, filter_value_handler, do_foursquare_search).    *)
(***************************************************************************)
\* /start is the entry point only; the one fallback is /cancel.
BotStart ==
    /\ bot_state = "END"
    /\ bot_state' = "LOCATION"
    /\ bot_last' = [handler |-> "start", from |-> bot_state]
    /\ UNCHANGED bot_user_data
    /\ UNCHANGED <<convVars, sanVars, csbVars, extVars>>

BotCancel ==
    /\ bot_state /= "END"
    /\ bot_state' = "END"
    /\ bot_last' = [handler |-> "cancel", from |-> bot_state]
    /\ UNCHANGED bot_user_data
    /\ UNCHANGED <<convVars, sanVars, csbVars, extVars>>

BotLocationHandler ==
    /\ bot_state = "LOCATION"
    /\ \E loc \in Locations :
          /\ bot_user_data' = Put(bot_user_data, "location", loc)
          /\ bot_last' = [handler |-> "location_handler", from |-> bot_state, location |-> loc]
    /\ bot_state' = "LOCATION"
    /\ UNCHANGED <<convVars, sanVars, csbVars, extVars>>

\* location_choice_handler takes a menu text in LOCATION, before or after
\* the location share; "Search Foursquare data" empties search_params.
BotLocationChoiceHandler ==
    /\ bot_state = "LOCATION"
    /\ \E text \in MenuTexts :
          /\ TextNotCommand(text)
          /\ LET user_text == Lower(Strip(text))
             IN IF Contains(user_text, "add a new place")
                THEN bot_state' = "NAME" /\ UNCHANGED bot_user_data
                ELSE IF Contains(user_text, "search foursquare data")
                THEN /\ bot_state' = "FILTER_CHOICE"
                     /\ bot_user_data' = Put(bot_user_data, "search_params", EmptyDict)
                ELSE bot_state' = "LOCATION" /\ UNCHANGED bot_user_data
          /\ bot_last' = [handler |-> "location_choice_handler", from |-> bot_state,
                          text |-> text]
    /\ UNCHANGED <<convVars, sanVars, csbVars, extVars>>

FilterChoiceTexts ==
    {"Set Keyword", "Open Now", "Set Price Range", DoneLabel, "more"}

\* The filter a menu text selects (the first substring that matches).
ChosenFilter(user_text) ==
    IF Contains(user_text, "keyword") THEN "query"
    ELSE IF Contains(user_text, "category") THEN "fsq_category_ids"
    ELSE IF Contains(user_text, "open now") THEN "open_now"
    ELSE IF Contains(user_text, "price") THEN "price_range"
    ELSE IF Contains(user_text, "radius") THEN "radius"
    ELSE "none"

\* filter_choice_handler; Done runs do_foursquare_search, which raises
\* KeyError without a stored location and otherwise ends the conversation.
BotFilterChoiceHandlerResult(ud, rawtext) ==
    LET user_text == Lower(Strip(rawtext))
        chosen == ChosenFilter(user_text)
    IN IF user_text = Lower(DoneLabel)
       THEN (IF "location" \in DOMAIN ud
             THEN [state |-> "END", outcome |-> "searched", user_data |-> ud]
             ELSE [state |-> "FILTER_CHOICE", outcome |-> "raised", user_data |-> ud])
       ELSE IF chosen = "open_now"
       THEN [state |-> "FILTER_CHOICE", outcome |-> "open_now",
             user_data |-> Put(ud, "search_params", Put(ud["search_params"], "open_now", "true"))]
       ELSE IF chosen = "none"
       THEN [state |-> "FILTER_CHOICE", outcome |-> "invalid", user_data |-> ud]
       ELSE [state |-> "FILTER_VALUE", outcome |-> "ask",
             user_data |-> Put(ud, "current_filter", chosen)]

BotFilterChoiceHandler ==
    /\ bot_state = "FILTER_CHOICE"
    /\ \E text \in FilterChoiceTexts :
          /\ TextNotCommand(text)
          /\ LET r == BotFilterChoiceHandlerResult(bot_user_data, text)
             IN /\ bot_state' = r.state
                /\ bot_user_data' = r.user_data
                /\ bot_last' = [handler |-> "filter_choice_handler", from |-> bot_state,
                                text |-> text, outcome |-> r.outcome]
    /\ UNCHANGED <<convVars, sanVars, csbVars, extVars>>

FilterValueTexts == {"2", " 3 ", "1,2", "4,1", "skip"}

\* Mutant: a single value sets the upper bound only.
PriceRange_MaxOnly(search_params, value) ==
    LET tokens == StripEach(Split(value, ","))
    IN IF Len(tokens) = 1
       THEN Put(search_params, "max_price", tokens[1])
       ELSE Put(Put(search_params, "min_price", tokens[1]), "max_price", tokens[2])

\* The price_range branch: one token sets both bounds, otherwise the first
\* two tokens are min_price and max_price.
PriceRange(search_params, value) ==
    LET tokens == StripEach(Split(value, ","))
    IN IF Len(tokens) = 1
       THEN Put(Put(search_params, "min_price", tokens[1]), "max_price", tokens[1])
       ELSE Put(Put(search_params, "min_price", tokens[1]), "max_price", tokens[2])

BotFilterValueHandlerResult(ud, rawtext) ==
    LET current_filter == Get(ud, "current_filter", "")
        value == Strip(rawtext)
        search_params == ud["search_params"]
    IN IF Lower(value) = "skip"
       THEN [state |-> "FILTER_CHOICE", outcome |-> "skipped", user_data |-> ud]
       ELSE IF current_filter \in {"query", "fsq_category_ids", "radius"}
       THEN [state |-> "FILTER_CHOICE", outcome |-> "set",
             user_data |-> Put(ud, "search_params", Put(search_params, current_filter, value))]
       ELSE IF current_filter = "price_range"
       THEN [state |-> "FILTER_CHOICE", outcome |-> "set",
             user_data |-> Put(ud, "search_params", PriceRange(search_params, value))]
       ELSE [state |-> "FILTER_CHOICE", outcome |-> "no_filter", user_data |-> ud]

BotFilterValueHandler ==
    /\ bot_state = "FILTER_VALUE"
    /\ \E text \in FilterValueTexts :
          /\ TextNotCommand(text)
          /\ LET r == BotFilterValueHandlerResult(bot_user_data, text)
             IN /\ bot_state' = r.state
                /\ bot_user_data' = r.user_data
                /\ bot_last' = [handler |-> "filter_value_handler", from |-> bot_state,
                                text |-> text, outcome |-> r.outcome,
                                current_filter |-> Get(bot_user_data, "current_filter", "")]
    /\ UNCHANGED <<convVars, sanVars, csbVars, extVars>>

NextBot ==
    \/ BotStart
    \/ BotCancel
    \/ BotLocationHandler
    \/ BotLocationChoiceHandler
    \/ BotFilterChoiceHandler
    \/ BotFilterValueHandler

SpecBot == Init /\ [][NextBot]_vars

(***************************************************************************)
(* Claims.                                                                 *)
(***************************************************************************)
SameKey(d1, d2, k) ==
    /\ (k \in DOMAIN d1) <=> (k \in DOMAIN d2)
    /\ k \in DOMAIN d1 => d1[k] = d2[k]

\* The merge-overwrite law, stated on its own: every key parsed as neither
\* null nor the empty string takes the parsed value, every other key keeps
\* what it had.
OverwriteLaw(acc, parsed) ==
    [k \in DOMAIN acc \cup {x \in DOMAIN parsed : parsed[x] \notin {None, PyStr("")}} |->
        IF parsed[k] \in {None, PyStr("")} THEN acc[k] ELSE parsed[k]]

RECURSIVE LeftFold(_, _)
LeftFold(acc, log) ==
    IF Len(log) = 0 THEN acc ELSE LeftFold(OverwriteLaw(acc, log[1]), Tail(log))

\* C1: after any sequence of query texts, the stored search_params is the left
\* fold, from the empty map set at the location share, of "overwrite every
\* key parsed as neither null nor the empty string".
C1_MergeOverwriteLaw ==
    "search_params" \in DOMAIN user_data =>
        user_data["search_params"] = LeftFold(EmptyDict, parsed_log)

\* C1 witness: two texts were merged; the second parsed query "" and kept
\* "pizza", and wrote open_now.
C1_Witness ==
    /\ Len(parsed_log) = 2
    /\ parsed_log[2]["query"] = PyStr("")
    /\ parsed_log[2]["max_price"] = None
    /\ "search_params" \in DOMAIN user_data
    /\ Get(user_data["search_params"], "query", None) = PyStr("pizza")
    /\ Get(user_data["search_params"], "max_price", None) = PyInt(2)
    /\ Get(user_data["search_params"], "open_now", None) = PyBool(TRUE)

\* A name is in the table when it equals a table name up to case.
IsMappable(name) ==
    \E k \in DOMAIN CategoryNameToId : Lower(k) = Lower(Strip(name))

AllMappable(names) == \A i \in 1..Len(names) : IsMappable(names[i])

CategoryJudged ==
    last.handler = "category_handler" /\ last.outcome /= "skipped"

\* C2 as stated: extracted names all in the table => ADDRESS; at least one
\* extracted name not in the table => CATEGORY.
C2_Original ==
    CategoryJudged =>
        /\ AllMappable(last.parsed_names) => conv_state = "ADDRESS"
        /\ ~AllMappable(last.parsed_names) => conv_state = "CATEGORY"

\* C2 amended: at least one name extracted and all of them in the table =>
\* ADDRESS; no name extracted, or one not in the table => CATEGORY.
C2_NonEmptyAllMapped ==
    CategoryJudged =>
        /\ (Len(last.parsed_names) > 0 /\ AllMappable(last.parsed_names))
              => conv_state = "ADDRESS"
        /\ (Len(last.parsed_names) = 0 \/ ~AllMappable(last.parsed_names))
              => conv_state = "CATEGORY"

\* C2 witness: two mappable names were extracted and the step advanced.
C2_Witness ==
    /\ CategoryJudged
    /\ Len(last.parsed_names) = 2
    /\ AllMappable(last.parsed_names)
    /\ conv_state = "ADDRESS"
    /\ user_data["categories_names"] = <<"Arcade", "Aquarium">>

\* C3: a rejected category input leaves categories_ids and categories_names
\* exactly as they were before the message.
C3_RejectKeepsCategories ==
    [][(conv_state = "CATEGORY" /\ last'.handler = "category_handler"
            /\ last'.outcome \in {"rejected", "raised"})
        => /\ SameKey(user_data', user_data, "categories_ids")
           /\ SameKey(user_data', user_data, "categories_names")
           /\ conv_state' = "CATEGORY"]_vars

\* C3 witness: an input with one mappable and one unknown name was rejected
\* while categories of an earlier run were stored.
C3_Witness ==
    /\ last.handler = "category_handler"
    /\ last.outcome = "rejected"
    /\ Len(last.unknown) = 1
    /\ Len(last.parsed_names) = 2
    /\ "categories_ids" \in DOMAIN user_data
    /\ user_data["categories_ids"] = "4bf58dd8d48988d1e1931735,4fceea171983d5d06c3e9823"

AfterAddressStates ==
    {"COORDINATES", "COORDINATES_MANUAL", "CONTACT", "HOURS", "CUSTOM_HOURS",
     "ATTRIBUTES", "PRIVATE_PLACE", "PHOTOS", "CONFIRM"}

C7_ValidAddressAdvances ==
    (/\ last.handler = "address_handler"
     /\ last.outcome /= "required"
     /\ last.parse.ok
     /\ last.parse.parsed.is_valid
     /\ last.parse.parsed.countryCode /= "")
    => /\ conv_state = "COORDINATES"
       /\ "address_fields" \in DOMAIN user_data
       /\ user_data["address_fields"] =
            [address |-> last.parse.parsed.address,
             locality |-> last.parse.parsed.locality,
             region |-> last.parse.parsed.region,
             postcode |-> last.parse.parsed.postcode,
             country_code |-> last.parse.parsed.countryCode]

CoordinatesKept ==
    /\ SameKey(user_data', user_data, "coordinates")
    /\ SameKey(user_data', user_data, "coordinates_source")

\* A parsed number outside [lo, hi].
Outside(v, lo, hi) == v.t \in {"float", "int"} /\ (v.v < lo \/ v.v > hi)

OutOfRangeParse(parse) ==
    /\ parse.ok
    /\ \/ Outside(parse.parsed.latitude, 0 - 90, 90)
       \/ Outside(parse.parsed.longitude, 0 - 180, 180)

\* C4: a manual coordinate input whose latitude is outside [-90,90] or whose
\* longitude is outside [-180,180] never moves the conversation to CONTACT
\* and never stores coordinates, whatever is_valid the parser reports.
C4_OutOfRangeNeverAdvances ==
    [][(conv_state = "COORDINATES_MANUAL"
            /\ last'.handler = "coordinates_manual_handler"
            /\ OutOfRangeParse(last'.parse))
        => (conv_state' /= "CONTACT" /\ CoordinatesKept)]_vars

\* C4 witness: the parser reported is_valid = true with latitude 91, and the
\* handler left COORDINATES_MANUAL without storing coordinates.
C4_Witness ==
    /\ last.handler = "coordinates_manual_handler"
    /\ last.text = "95,200"
    /\ last.parse.ok
    /\ last.parse.parsed.is_valid = PyBool(TRUE)
    /\ last.parse.parsed.latitude = PyFloat(91)
    /\ last.parse.parsed.longitude = PyFloat(77)
    /\ conv_state /= "CONTACT"
    /\ "coordinates" \notin DOMAIN user_data

\* C5: after coordinates_manual_handler rejects an input (parser-invalid,
\* missing value, out of range) the state is still COORDINATES_MANUAL and
\* coordinates and coordinates_source are unchanged.
C5_RejectStaysInManual ==
    [][(conv_state = "COORDINATES_MANUAL"
            /\ last'.handler = "coordinates_manual_handler"
            /\ last'.outcome \in {"unparsed", "out_of_range"})
        => (conv_state' = "COORDINATES_MANUAL" /\ CoordinatesKept)]_vars

\* C10: every parameter map handle_confirmation passes to suggest_place has
\* no value that is None or the empty string.
C10_NoEmptyValueSubmitted ==
    (last.handler = "handle_confirmation" /\ last.data = "confirm_yes") =>
        \A k \in DOMAIN last.safe_params :
            last.safe_params[k] \notin {None, PyStr("")}

ClaimedWhitelist ==
    {"name", "categories", "address", "locality", "region", "postcode",
     "country_code", "latitude", "longitude", "isPrivatePlace", "tel", "website",
     "email", "facebookUrl", "instagram", "twitter", "hours", "attributes", "dry_run"}

\* C9 as stated: every key of the map _sanitize_suggest_params returns is one
\* of the nineteen listed keys.
C9_Original ==
    san_pc = "done" => DOMAIN san_out \subseteq ClaimedWhitelist

\* C9 amended: every key of the returned map is a key of the raw map and is
\* one of the nineteen listed keys or parentId; any other key is dropped.
C9_WhitelistWithParentId ==
    san_pc = "done" =>
        DOMAIN san_out \subseteq DOMAIN san_raw \cap (ClaimedWhitelist \cup {"parentId"})

\* C9 witness: a raw map with parentId and chains was sanitized; parentId
\* is in the result and chains is not.
C9_Witness ==
    /\ san_pc = "done"
    /\ DOMAIN san_raw = {"parentId", "chains"}
    /\ DOMAIN san_out = {"parentId"}

\* C8: in every reachable state the stored photos list has at most 3 entries,
\* and the photo upload that brings the count to 3 moves the conversation
\* from PHOTOS to CONFIRM.
C8_PhotosAtMostThree ==
    /\ Len(Get(csb_user_data, "photos", <<>>)) <= 3
    /\ (/\ csb_last.handler = "photos_handler"
        /\ "photo" \in DOMAIN csb_last.update
        /\ Len(Get(csb_user_data, "photos", <<>>)) = 3)
       => csb_state = "CONFIRM"

EmptyValues == {None, PyStr(""), PyList(<<>>)}

\* A sanitized raw map whose keys are all listed and whose values are all non-empty.
WhitelistedNonEmptyRaw ==
    /\ san_pc = "done"
    /\ DOMAIN san_raw \subseteq ClaimedWhitelist
    /\ \A k \in DOMAIN san_raw : san_raw[k] \notin EmptyValues

\* The keys of the raw map are the keys of the result; a boolean
\* isPrivatePlace or dry_run is the lowercase string in the result.
SameKeysLowercaseBooleans ==
    /\ DOMAIN san_out = DOMAIN san_raw
    /\ \A k \in DOMAIN san_raw \cap {"isPrivatePlace", "dry_run"} :
          san_raw[k].t = "bool" =>
              san_out[k] = PyStr(IF san_raw[k].v THEN "true" ELSE "false")

IsConfirmation(data) ==
    /\ last.handler = "handle_confirmation"
    /\ last.data = data

C14_ConfirmNoRestartsAtLocation ==
    IsConfirmation("confirm_no") =>
        conv_state = "LOCATION" /\ last.suggest_calls = 0

AlwaysOpenHours ==
    "1,0000,2400;2,0000,2400;3,0000,2400;4,0000,2400;5,0000,2400;6,0000,2400;7,0000,2400"

\* The steps of the contribution behind ADDRESS: /skip on CONTACT stores
\* contact = {}, "Open 24/7" stores the seven-day string, Done and a privacy
\* answer lead to CONFIRM.
HappyPathTail ==
    /\ last.handler = "coordinates_choice_handler" /\ last.outcome \in {"current", "skipped"} =>
          conv_state = "CONTACT"
    /\ last.handler = "contact_handler" /\ last.text = "/skip" =>
          conv_state = "HOURS" /\ user_data["contact"] = EmptyDict
    /\ last.handler = "hours_handler" /\ last.text = "Open 24/7" =>
          conv_state = "ATTRIBUTES" /\ user_data["hours_api"] = AlwaysOpenHours
    /\ last.handler = "attributes_handler" /\ last.text = DoneLabel =>
          conv_state = "PRIVATE_PLACE"
    /\ last.handler = "private_place_handler" /\ last.text \in {"Yes", "no"} =>
          conv_state = "CONFIRM"

\* C15: every step of the happy path advances: after a shared location,
\* "Add a new place", a name and mappable categories, a valid address moves
\* the conversation to COORDINATES, and the steps behind it lead to CONFIRM
\* with contact = {} and the 24/7 hours string.
C15_HappyPathAdvances ==
    /\ (/\ last.handler = "address_handler"
        /\ last.text = "1 Main St, Springfield IL 62701, US"
        /\ last.parse.ok
        /\ last.parse.parsed.is_valid
        /\ "location" \in DOMAIN user_data
        /\ "name" \in DOMAIN user_data
        /\ "categories_ids" \in DOMAIN user_data)
       => conv_state = "COORDINATES"
    /\ HappyPathTail

\* C16: in every conversation state, LOCATION through CONFIRM, no handler of
\* the state takes /start or /cancel, so the fallbacks run: /start leaves the
\* conversation in LOCATION and /cancel ends it.
C16_StartAndCancelFromEveryState ==
    /\ \A state \in ConversationStates :
          /\ Dispatch(state, "/start") = "start"
          /\ Dispatch(state, "/cancel") = "cancel"
    /\ last.handler = "start" => conv_state = "LOCATION"
    /\ last.handler = "cancel" => conv_state = "END"

\* C16 witness: /start sent in CONFIRM took the conversation to LOCATION.
C16_Witness ==
    /\ last.handler = "start"
    /\ last.from = "CONFIRM"
    /\ conv_state = "LOCATION"

\* The attribute tokens the labels sent in this run map to.
TokensOfThisRun == {_ATTR_MAP[label] : label \in AttributeTexts \cap DOMAIN _ATTR_MAP}

\* C17: the payload handle_confirmation submits carries only attributes
\* selected in the wizard run it confirms, none collected in an earlier run.
C17_PayloadHoldsOnlyThisRun ==
    IsConfirmation("confirm_yes") /\ "attributes" \in DOMAIN last.safe_params =>
        LET tokens == Split(last.safe_params["attributes"].v, ",")
        IN \A i \in 1..Len(tokens) : tokens[i] \in TokensOfThisRun

SinglePriceInput ==
    /\ bot_last.handler = "filter_value_handler"
    /\ bot_last.current_filter = "price_range"
    /\ ~Contains(bot_last.text, ",")
    /\ Lower(Strip(bot_last.text)) /= "skip"

\* C19: after the price filter handled a single value p, search_params has
\* min_price = max_price = p (p without its surrounding blanks).
C19_SinglePriceSetsBothBounds ==
    SinglePriceInput =>
        LET search_params == bot_user_data["search_params"]
        IN /\ {"min_price", "max_price"} \subseteq DOMAIN search_params
           /\ search_params["min_price"] = Strip(bot_last.text)
           /\ search_params["max_price"] = Strip(bot_last.text)

\* C19 witness: " 3 " was given to the price filter while an earlier range
\* was stored, and both bounds are "3".
C19_Witness ==
    /\ SinglePriceInput
    /\ bot_last.text = " 3 "
    /\ bot_user_data["search_params"]["min_price"] = "3"
    /\ bot_user_data["search_params"]["max_price"] = "3"
    /\ bot_state = "FILTER_CHOICE"

\* C20: whenever search_params holds both min_price and max_price, as
\* numbers, min_price <= max_price: in bot.py after a price input and in
\* placemaker_bot after every merge of parsed values.
C20_MinPriceAtMostMaxPrice ==
    /\ LET search_params == Get(bot_user_data, "search_params", EmptyDict)
       IN (/\ {"min_price", "max_price"} \subseteq DOMAIN search_params
           /\ IsDigits(search_params["min_price"])
           /\ IsDigits(search_params["max_price"]))
          => DigitsToNat(search_params["min_price"], 0) <= DigitsToNat(search_params["max_price"], 0)
    /\ LET search_params == Get(user_data, "search_params", EmptyDict)
       IN (/\ {"min_price", "max_price"} \subseteq DOMAIN search_params
           /\ search_params["min_price"].t = "int"
           /\ search_params["max_price"].t = "int")
          => search_params["min_price"].v <= search_params["max_price"].v

\* A query or refine text was parsed and merged, and the search was attempted.
Searched ==
    /\ last.handler \in {"query_handler", "refine_handler"}
    /\ last.outcome = "searched"

\* C21: when the places-search call raises, the user gets "Error: ..." with
\* the exception text, the conversation is in QUERY, whether the text came in
\* QUERY or in REFINE, and search_params holds every filter parsed from it.
C21_SearchErrorReturnsToQuery ==
    Searched /\ last.search.kind = "error" =>
        /\ conv_state = "QUERY"
        /\ last.searches = 1
        /\ last.replies = <<[kind |-> "error", text |-> "Error: " \o last.search.error]>>
        /\ \A k \in DOMAIN last.parsed :
              last.parsed[k] \notin {None, PyStr("")} =>
                  /\ k \in DOMAIN user_data["search_params"]
                  /\ user_data["search_params"][k] = last.parsed[k]

\* C21 witness: a refinement in REFINE whose search raised left the
\* conversation in QUERY with the parsed query stored.
C21_Witness ==
    /\ Searched
    /\ last.handler = "refine_handler"
    /\ last.from = "REFINE"
    /\ last.search.kind = "error"
    /\ conv_state = "QUERY"
    /\ last.replies[1].text = "Error: 503 Server Error"
    /\ last.parsed["query"] = PyStr("sushi")
    /\ Get(user_data["search_params"], "query", None) = PyStr("sushi")

\* A search that returned places.
SearchReturnedPlaces == Searched /\ last.search.kind = "results"

\* C22: after the photo loop every result has an image_url; it is null for
\* the place whose lookup raised or returned an empty list, the places after
\* it are still looked up, and with the LLM calls succeeding the results
\* message is sent and the next state is REFINE whatever the lookups did.
C22_PhotoFailuresDegradeToNull ==
    SearchReturnedPlaces =>
        /\ Len(last.results) = Len(SearchPlaces)
        /\ \A i \in 1..Len(last.results) :
              /\ "image_url" \in DOMAIN last.results[i]
              /\ (SearchPlaces[i].fsq_place_id /= "" /\
                  (last.search.lookups[i].raised \/ Len(last.search.lookups[i].photos) = 0))
                 => last.results[i].image_url = None
              /\ (SearchPlaces[i].fsq_place_id /= "" /\ ~last.search.lookups[i].raised /\
                  Len(last.search.lookups[i].photos) > 0)
                 => last.results[i].image_url = PyStr("https://img/300x225/a.jpg")
        /\ last.search.llm = "ok" =>
              /\ conv_state = "REFINE"
              /\ last.replies[1] = ResultsMessage(last.results)

\* C22 witness: the first lookup returned nothing and the second raised;
\* the third place was still processed, the results message went out and
\* the conversation is in REFINE.
C22_Witness ==
    /\ SearchReturnedPlaces
    /\ last.search.lookups = <<PhotoNone, PhotoRaises, PhotoFound>>
    /\ last.results[1].image_url = None
    /\ last.results[2].image_url = None
    /\ "image_url" \in DOMAIN last.results[3]
    /\ last.replies[1].kind = "results"
    /\ conv_state = "REFINE"

\* C23: in the parser-backed wizard steps an unparsable LLM response does not
\* raise: custom_hours_handler answers a response that is not JSON with its
\* re-prompt and stays in CUSTOM_HOURS, and coordinates_manual_handler
\* answers the is_valid = false result of a failed json.loads and stays in
\* COORDINATES_MANUAL.
C23_UnparsableResponseReprompts ==
    /\ (/\ last.handler = "custom_hours_handler"
        /\ last.outcome /= "skipped"
        /\ ~last.parsed.ok)
       => last.outcome = "invalid" /\ conv_state = "CUSTOM_HOURS"
    /\ (/\ last.handler = "coordinates_manual_handler"
        /\ last.outcome /= "skipped"
        /\ last.parse.ok
        /\ last.parse.parsed = [is_valid |-> PyBool(FALSE), latitude |-> None, longitude |-> None])
       => conv_state = "COORDINATES_MANUAL"

(***************************************************************************)
(* Webhook mode (web_server.py, main.py): every POST schedules its own     *)
(* application.process_update coroutine on the shared event loop and       *)
(* returns at once.  A coroutine reads the chat's conversation state when  *)
(* it picks the handler, the handler awaits its replies, and the state the *)
(* handler returns is stored when it ends.  Coroutines start in the order  *)
(* they were scheduled; between the awaits of one, the others run.         *)
(***************************************************************************)
MaxPosts == 3

\* The updates Telegram posts for the chat.
WebhookUpdates == {"/start", "/cancel", "location"}

\* The handler the ConversationHandler picks for an update in a state.
WebhookDispatch(state, update) ==
    IF update = "location"
    THEN (IF state = "LOCATION" THEN "location_handler" ELSE "none")
    ELSE Dispatch(state, update)

\* The state the picked handler returns.
WebhookNextState(handler) ==
    CASE handler = "start" -> "LOCATION"
      [] handler = "cancel" -> "END"
      [] handler = "location_handler" -> "LOCATION_CHOICE"

\* webhook(): the POST is parsed, its coroutine scheduled, "ok" returned.
WebhookPost ==
    /\ Len(wh_tasks) < MaxPosts
    /\ \E update \in WebhookUpdates :
          wh_tasks' = Append(wh_tasks, [update |-> update, pc |-> "scheduled",
                                        seen |-> "none", handler |-> "none"])
    /\ UNCHANGED wh_state
    /\ UNCHANGED <<convVars, sanVars, csbVars, botVars, agVars, rank_last, fsq_call, route_last>>

\* process_update up to the handler's first await: the stored state is read
\* and the handler picked; an update no handler takes is dropped.
ProcessUpdateBegin ==
    /\ \E i \in 1..Len(wh_tasks) :
          /\ wh_tasks[i].pc = "scheduled"
          /\ \A j \in 1..(i - 1) : wh_tasks[j].pc # "scheduled"
          /\ wh_tasks' = [wh_tasks EXCEPT ![i] =
                [update |-> wh_tasks[i].update,
                 pc |-> IF WebhookDispatch(wh_state, wh_tasks[i].update) = "none"
                        THEN "done" ELSE "handling",
                 seen |-> wh_state,
                 handler |-> WebhookDispatch(wh_state, wh_tasks[i].update)]]
    /\ UNCHANGED wh_state
    /\ UNCHANGED <<convVars, sanVars, csbVars, botVars, agVars, rank_last, fsq_call, route_last>>

\* The handler's replies are sent and it returns: its state is stored.
ProcessUpdateEnd ==
    /\ \E i \in 1..Len(wh_tasks) :
          /\ wh_tasks[i].pc = "handling"
          /\ wh_state' = WebhookNextState(wh_tasks[i].handler)
          /\ wh_tasks' = [wh_tasks EXCEPT ![i].pc = "done"]
    /\ UNCHANGED <<convVars, sanVars, csbVars, botVars, agVars, rank_last, fsq_call, route_last>>

NextWebhook ==
    \/ WebhookPost
    \/ ProcessUpdateBegin
    \/ ProcessUpdateEnd

SpecWebhook == Init /\ [][NextWebhook]_vars

\* C24: the handler of an event of the chat has run to completion before the
\* handler of the next event of the chat starts: at no time are two handlers
\* of the chat running, and no two handlers have read the same stored state
\* without a transition in between.
C24_OneHandlerAtATime ==
    \A i, j \in 1..Len(wh_tasks) :
        (i < j /\ wh_tasks[i].pc = "handling") => wh_tasks[j].pc = "scheduled"

(***************************************************************************)
(* The agent system (agents/__init__.py, base_agent.py,                    *)
(* supervisor_agent.py).  The registry holds one instance per agent type;  *)
(* every request of every chat is given to the one registered              *)
(* SupervisorAgent, which keeps the session of the request it is           *)
(* processing in its own fields session_id and started_at.                 *)
(* process_request runs up to its first await (routing asks the LLM), and  *)
(* from the answer to its end, without interruption; between the two,      *)
(* requests of other chats run.                                            *)
(***************************************************************************)
MaxRequests == 2

MaxInstances == 6

\* BaseAgent.__init__: no session.
NoSession == [session_id |-> None, started_at |-> None]

\* The name each agent class passes to BaseAgent.__init__.
AgentName(agent_type) ==
    CASE agent_type = "supervisor" -> "SupervisorAgent"
      [] agent_type = "search" -> "SearchAgent"
      [] agent_type = "recommendation" -> "RecommendationAgent"
      [] agent_type = "data_management" -> "DataManagementAgent"

\* A new instance of the agent class of a type.
NewAgent(agent_type, id) ==
    [agent_type |-> agent_type, name |-> AgentName(agent_type), id |-> id]

\* Mutant: an agent of a type already registered is not taken.
register_agent_KeepFirst(agents, agent) ==
    IF agent.agent_type \in DOMAIN agents THEN agents
    ELSE Put(agents, agent.agent_type, agent)

\* AgentRegistry.register_agent: self._agents[agent.agent_type] = agent.
register_agent(agents, agent) == Put(agents, agent.agent_type, agent)

\* AgentRegistry.get_all_agents: list(self._agents.values()).
get_all_agents(agents) == {agents[t] : t \in DOMAIN agents}

\* SupervisorAgent.can_handle.
can_handle(request) == TRUE

\* The session fields of the instances, the new ones included.
WithNewInstances(created) ==
    [id \in 1..created |-> IF id \in DOMAIN sessions THEN sessions[id] ELSE NoSession]

\* initialize_agents(), run when the package is imported: the four agents are
\* created and registered.
InitializeAgents ==
    /\ reg_last.created + 4 <= MaxInstances
    /\ registry' =
          register_agent(register_agent(register_agent(register_agent(registry,
              NewAgent("supervisor", reg_last.created + 1)),
              NewAgent("search", reg_last.created + 2)),
              NewAgent("recommendation", reg_last.created + 3)),
              NewAgent("data_management", reg_last.created + 4))
    /\ sessions' = WithNewInstances(reg_last.created + 4)
    /\ reg_last' = [op |-> "initialize_agents", created |-> reg_last.created + 4]
    /\ UNCHANGED <<requests, utcnow>>
    /\ UNCHANGED <<convVars, sanVars, csbVars, botVars, whVars, rank_last, fsq_call, route_last>>

\* agent_registry.register_agent(agent) with a new agent of some type.
RegisterAgent ==
    /\ reg_last.op # "none"
    /\ reg_last.created < MaxInstances
    /\ \E agent_type \in AgentTypes :
          /\ registry' = register_agent(registry, NewAgent(agent_type, reg_last.created + 1))
          /\ reg_last' = [op |-> "register_agent", created |-> reg_last.created + 1,
                          agent |-> NewAgent(agent_type, reg_last.created + 1),
                          before |-> registry]
    /\ sessions' = WithNewInstances(reg_last.created + 1)
    /\ UNCHANGED <<requests, utcnow>>
    /\ UNCHANGED <<convVars, sanVars, csbVars, botVars, whVars, rank_last, fsq_call, route_last>>

\* BaseAgent.start_session: the session id names the agent, the conversation
\* and a fresh uuid.
StartSession(name, conversation_id) ==
    [session_id |-> [name |-> name, conversation_id |-> conversation_id, uuid |-> utcnow],
     started_at |-> PyInt(utcnow)]

\* BaseAgent.end_session: the metrics of the session the fields hold, None
\* when they hold none.
EndSessionMetrics(agent) ==
    IF agent.session_id = None \/ agent.started_at = None THEN None
    ELSE [session_id |-> agent.session_id, started_at |-> agent.started_at]

\* SupervisorAgent._update_conversation_context: the updates of the response.
ContextUpdates(agent) ==
    [last_agent |-> "supervisor", supervisor_session_id |-> agent.session_id]

\* process_request of the registered supervisor, up to the await of the
\* routing: the request is validated and the session started.
SupervisorBegin ==
    /\ "supervisor" \in DOMAIN registry
    /\ \E c \in Chats :
          /\ requests[c].pc = "idle"
          /\ requests[c].served < MaxRequests
          /\ sessions' = [sessions EXCEPT ![registry["supervisor"].id] =
                             StartSession(registry["supervisor"].name, c)]
          /\ requests' = [requests EXCEPT ![c] =
                [pc |-> "routing", served |-> requests[c].served,
                 agent |-> registry["supervisor"].id,
                 session_id |-> StartSession(registry["supervisor"].name, c).session_id,
                 started_at |-> StartSession(registry["supervisor"].name, c).started_at,
                 outcome |-> "none", context_updates |-> EmptyDict, metrics |-> None]]
    /\ utcnow' = utcnow + 1
    /\ UNCHANGED <<registry, reg_last>>
    /\ UNCHANGED <<convVars, sanVars, csbVars, botVars, whVars, rank_last, fsq_call, route_last>>

\* process_request from the routing answer on: the response (or, after an
\* exception, the error response) gets its context updates, and the finally
\* clause ends the session.
SupervisorEnd ==
    /\ \E c \in Chats, outcome \in {"response", "error"} :
          /\ requests[c].pc = "routing"
          /\ requests' = [requests EXCEPT ![c] =
                [pc |-> "idle", served |-> requests[c].served + 1,
                 agent |-> requests[c].agent,
                 session_id |-> requests[c].session_id,
                 started_at |-> requests[c].started_at,
                 outcome |-> outcome,
                 context_updates |-> IF outcome = "response"
                                     THEN ContextUpdates(sessions[requests[c].agent])
                                     ELSE [error |-> "Agent SupervisorAgent encountered an error"],
                 metrics |-> EndSessionMetrics(sessions[requests[c].agent])]]
          /\ sessions' = IF EndSessionMetrics(sessions[requests[c].agent]) = None
                         THEN sessions
                         ELSE [sessions EXCEPT ![requests[c].agent] = NoSession]
    /\ UNCHANGED <<registry, reg_last, utcnow>>
    /\ UNCHANGED <<convVars, sanVars, csbVars, botVars, whVars, rank_last, fsq_call, route_last>>

NextAgents ==
    \/ InitializeAgents
    \/ RegisterAgent
    \/ SupervisorBegin
    \/ SupervisorEnd

SpecAgents == Init /\ [][NextAgents]_vars

\* C25: while the supervisor processes the request of a chat, the session_id
\* and started_at it holds are the ones started for that request, and the
\* supervisor_session_id written into the request's context updates is the
\* session id of that request: never the one of another chat's request, and
\* never cleared by it.
C25_SessionsOfChatsAreSeparate ==
    \A c \in Chats :
        /\ requests[c].pc = "routing" =>
              /\ sessions[requests[c].agent].session_id = requests[c].session_id
              /\ sessions[requests[c].agent].started_at = requests[c].started_at
        /\ requests[c].outcome = "response" =>
              requests[c].context_updates["supervisor_session_id"] = requests[c].session_id

\* The table labels among the texts tapped, in tap order.
TableLabels(tapped) == SelectSeq(tapped, LAMBDA label : label \in DOMAIN _ATTR_MAP)

\* C26: when Done is tapped in ATTRIBUTES, attributes_tokens is the list of
\* the table tokens of the tapped texts that are table labels, in tap order
\* (a text that is no table label contributes nothing), and the conversation
\* is in PRIVATE_PLACE; any other text is added to the tapped texts and the
\* conversation stays in ATTRIBUTES.
C26_DoneMapsTappedLabels ==
    last.handler = "attributes_handler" =>
        LET tapped == Get(user_data, "attributes", <<>>)
        IN IF last.text = DoneLabel
           THEN /\ conv_state = "PRIVATE_PLACE"
                /\ user_data["attributes_tokens"] =
                      [i \in 1..Len(TableLabels(tapped)) |-> _ATTR_MAP[TableLabels(tapped)[i]]]
           ELSE /\ conv_state = "ATTRIBUTES"
                /\ Len(tapped) > 0
                /\ tapped[Len(tapped)] = last.text

C26_Witness ==
    /\ last.handler = "attributes_handler"
    /\ last.text = DoneLabel
    /\ Get(user_data, "attributes", <<>>) = <<"Pool", "ATM">>
    /\ user_data["attributes_tokens"] = <<"atm">>
    /\ conv_state = "PRIVATE_PLACE"

\* C29: every text query_handler handles, in QUERY or handed on by
\* refine_handler, makes exactly one fsq.search call; when the call returns
\* at least one place the conversation is in REFINE afterwards, and when it
\* returns none the conversation is in QUERY.
C29_OneSearchThenRefineOrQuery ==
    /\ last.handler = "query_handler" => last.searches = 1
    /\ (last.handler \in {"query_handler", "refine_handler"} /\ last.outcome = "searched") =>
          /\ last.searches = 1
          /\ last.search.kind = "results" => conv_state = "REFINE"
          /\ last.search.kind = "empty" => conv_state = "QUERY"

\* A step of refine_handler whose classifier call returned an answer.
RefineStep ==
    /\ conv_state = "REFINE"
    /\ last'.handler = "refine_handler"
    /\ last'.reply # "raise"

\* refine_handler has ended the conversation: no search call, user_data as
\* it was.
RefineEnded ==
    /\ conv_state' = "END"
    /\ last'.outcome = "end"
    /\ last'.searches = 0
    /\ user_data' = user_data

\* refine_handler has handed the text to query_handler: it is parsed and,
\* unless the parser raised, merged into search_params and searched.
RefineTreatedAsQuery ==
    /\ last'.outcome \in {"searched", "raised"}
    /\ last'.outcome = "raised" => last'.searches = 0 /\ user_data' = user_data
    /\ last'.outcome = "searched" =>
          /\ user_data'["search_params"] =
                MergeParams(Get(user_data, "search_params", EmptyDict), last'.parsed)
          /\ user_data'["location"] = user_data["location"]
          /\ last'.searches = 1

\* C30 as stated: only the answer that is exactly 'end' ends the conversation
\* (no search call, search_params and location unchanged); every other answer
\* has the text processed as a QUERY input.
C30_Original ==
    [][RefineStep => IF last'.reply = "end" THEN RefineEnded ELSE RefineTreatedAsQuery]_vars

\* C30: in REFINE, when the classifier's answer put in lower case is 'end',
\* the conversation ends with no search call and with search_params and
\* location unchanged; for every other answer the same text is processed as
\* a QUERY input (parsed, merged, searched).
C30_EndInAnyCaseElseQuery ==
    [][RefineStep => IF Lower(last'.reply) = "end" THEN RefineEnded
                     ELSE RefineTreatedAsQuery]_vars

C30_Witness ==
    /\ last.handler = "refine_handler"
    /\ last.from = "REFINE"
    /\ last.reply = "End"
    /\ last.outcome = "end"
    /\ conv_state = "END"
    /\ "search_params" \in DOMAIN user_data

(***************************************************************************)
(* RecommendationAgent._rank_recommendations (recommendation_agent.py):    *)
(* the places are given to the LLM for ranking; an answer that is a        *)
(* non-empty JSON list is returned as it is, any other answer returns the  *)
(* places in the order they came in, and an exception returns them sorted  *)
(* by rating and distance.                                                 *)
(***************************************************************************)
MaxPlaces == 3

\* The places a search hands to the ranking: rating and distance may be
\* missing, and a place at the user's position has distance 0.
RankPlaces ==
    {[name |-> PyStr("A"), rating |-> PyInt(5), distance |-> PyInt(100)],
     [name |-> PyStr("B"), rating |-> PyInt(5), distance |-> PyInt(0)],
     [name |-> PyStr("C"), distance |-> PyInt(50)],
     [name |-> PyStr("D"), rating |-> PyInt(3)]}

\* The lists of at most MaxPlaces different places.
RankInputs ==
    {places \in UNION {[1..n -> RankPlaces] : n \in 0..MaxPlaces} :
        \A i, j \in DOMAIN places : places[i] = places[j] => i = j}

\* The places in reverse order.
Reversed(places) == [i \in 1..Len(places) |-> places[Len(places) + 1 - i]]

\* What the chat completion may give: an exception, text that is not JSON,
\* JSON that is no list, an empty list, a list of the places.
RankAnswers(places) ==
    {[kind |-> "raises"], [kind |-> "not json"], [kind |-> "dict"],
     [kind |-> "list", v |-> <<>>], [kind |-> "list", v |-> Reversed(places)]}

\* p.get(key) or default.
GetOr(p, key, default) ==
    IF Get(p, key, None) \in {None, PyInt(0)} THEN default ELSE p[key].v

\* The sort key of the fallback: (-(rating or 0), distance or 9999).
SortsBefore(p, q) ==
    \/ GetOr(p, "rating", 0) > GetOr(q, "rating", 0)
    \/ /\ GetOr(p, "rating", 0) = GetOr(q, "rating", 0)
       /\ GetOr(p, "distance", 9999) < GetOr(q, "distance", 9999)

\* sorted(): the place is put behind every place it does not sort before.
RECURSIVE InsertSorted(_, _)
InsertSorted(sorted, p) ==
    IF Len(sorted) = 0 THEN <<p>>
    ELSE IF SortsBefore(p, sorted[1]) THEN <<p>> \o sorted
    ELSE <<sorted[1]>> \o InsertSorted(Tail(sorted), p)

RECURSIVE FallbackRanking(_)
FallbackRanking(places) ==
    IF Len(places) = 0 THEN <<>>
    ELSE InsertSorted(FallbackRanking(SubSeq(places, 1, Len(places) - 1)),
                      places[Len(places)])

\* _rank_recommendations: what it returns for the places and the answer.
RankRecommendations(places, answer) ==
    IF answer.kind = "raises" THEN FallbackRanking(places)
    ELSE IF answer.kind = "list" /\ Len(answer.v) > 0 THEN answer.v
    ELSE places

RankRecommendationsCall ==
    /\ \E places \in RankInputs :
          \E answer \in RankAnswers(places) :
             rank_last' = [outcome |-> "returned", places |-> places, answer |-> answer,
                           result |-> RankRecommendations(places, answer)]
    /\ UNCHANGED <<convVars, sanVars, csbVars, botVars, whVars, agVars, fsq_call, route_last>>

NextRank == RankRecommendationsCall

SpecRank == Init /\ [][NextRank]_vars

\* The ranking has failed: the call raised, or the answer is not a parsable
\* non-empty JSON list.
RankingFailed ==
    /\ rank_last.outcome = "returned"
    /\ ~(rank_last.answer.kind = "list" /\ Len(rank_last.answer.v) > 0)

\* Rating descending with a missing rating as 0, then distance ascending
\* with a missing distance as 9999.
InFallbackOrder(p, q) ==
    LET rating(x) == IF "rating" \in DOMAIN x THEN x["rating"].v ELSE 0
        distance(x) == IF "distance" \in DOMAIN x THEN x["distance"].v ELSE 9999
    IN \/ rating(p) > rating(q)
       \/ rating(p) = rating(q) /\ distance(p) <= distance(q)

\* C27: whenever the LLM ranking fails, the list returned is the input places
\* in the fallback order: rating descending (missing rating as 0), then
\* distance ascending (missing distance as 9999).
C27_FailedRankingGivesFallbackOrder ==
    RankingFailed =>
        /\ Len(rank_last.result) = Len(rank_last.places)
        /\ \A p \in RankPlaces :
              (\E i \in DOMAIN rank_last.places : rank_last.places[i] = p)
              <=> (\E i \in DOMAIN rank_last.result : rank_last.result[i] = p)
        /\ \A i, j \in DOMAIN rank_last.result :
              i < j => InFallbackOrder(rank_last.result[i], rank_last.result[j])

\* C28: once the agents package is imported the registry holds exactly one
\* agent for each of the four agent types, each of its own type; registering
\* an agent of a type already registered replaces the agent of that type and
\* no other; and SupervisorAgent.can_handle is true for every request.
C28_OneAgentPerTypeAndReplace ==
    /\ reg_last.op # "none" =>
          /\ DOMAIN registry = AgentTypes
          /\ \A t \in AgentTypes : registry[t].agent_type = t
          /\ Cardinality(get_all_agents(registry)) = 4
    /\ reg_last.op = "register_agent" =>
          /\ registry[reg_last.agent.agent_type] = reg_last.agent
          /\ \A t \in AgentTypes \ {reg_last.agent.agent_type} :
                registry[t] = reg_last.before[t]
    /\ \A c \in Chats : can_handle(requests[c])

C28_Witness ==
    /\ reg_last.op = "register_agent"
    /\ reg_last.agent.agent_type = "search"
    /\ reg_last.before["search"].id = 2
    /\ registry["search"].id = 5
    /\ registry["supervisor"].id = 1
    /\ requests["chat1"].pc = "routing"

\* The wizard states behind NAME.
StatesBehindName ==
    {"CATEGORY", "ADDRESS", "COORDINATES", "COORDINATES_MANUAL", "CONTACT", "HOURS",
     "CUSTOM_HOURS", "ATTRIBUTES", "PRIVATE_PLACE", "PHOTOS", "CONFIRM"}

\* C31: NAME is left for CATEGORY only with a name of length >= 1 after
\* trimming: in every wizard state from CATEGORY to CONFIRM the stored name is
\* non-empty, and every payload submitted contains a name.
C31_StoredNameNonEmpty ==
    /\ conv_state \in StatesBehindName => Get(user_data, "name", "") # ""
    /\ IsConfirmation("confirm_yes") => "name" \in DOMAIN last.safe_params

\* The wizard states from CONTACT to CONFIRM.
StatesBehindCoordinates ==
    {"CONTACT", "HOURS", "CUSTOM_HOURS", "ATTRIBUTES", "PRIVATE_PLACE", "PHOTOS", "CONFIRM"}

\* C32: /skip in COORDINATES or COORDINATES_MANUAL never leads to CONTACT; in
\* every state from CONTACT to CONFIRM coordinates_source is 'current' or
\* 'manual' and a latitude and a longitude are stored; and every payload
\* given to suggest_place contains latitude and longitude.
C32_CoordinatesAreRequired ==
    /\ (/\ last.handler \in {"coordinates_choice_handler", "coordinates_manual_handler"}
        /\ Lower(Strip(last.text)) \in {"skip", "/skip"})
       => conv_state = "COORDINATES"
    /\ conv_state \in StatesBehindCoordinates =>
          /\ Get(user_data, "coordinates_source", "") \in {"current", "manual"}
          /\ "coordinates" \in DOMAIN user_data
          /\ InRange(user_data["coordinates"].latitude, user_data["coordinates"].longitude)
    /\ (IsConfirmation("confirm_yes") /\ last.suggest_calls = 1) =>
          {"latitude", "longitude"} \subseteq DOMAIN last.safe_params

C32_Witness ==
    /\ IsConfirmation("confirm_yes")
    /\ last.suggest_calls = 1
    /\ user_data["coordinates_source"] = "manual"
    /\ {"latitude", "longitude"} \subseteq DOMAIN last.safe_params

\* The states from which a wizard state may be entered when the steps are
\* taken in order (COORDINATES_MANUAL and CUSTOM_HOURS are the sub-steps of
\* COORDINATES and HOURS).
StepsBefore(state) ==
    CASE state = "LOCATION_CHOICE" -> {"LOCATION"}
      [] state = "NAME" -> {"LOCATION_CHOICE"}
      [] state = "CATEGORY" -> {"NAME"}
      [] state = "ADDRESS" -> {"CATEGORY"}
      [] state = "COORDINATES" -> {"ADDRESS", "COORDINATES_MANUAL"}
      [] state = "COORDINATES_MANUAL" -> {"COORDINATES"}
      [] state = "CONTACT" -> {"COORDINATES", "COORDINATES_MANUAL"}
      [] state = "HOURS" -> {"CONTACT"}
      [] state = "CUSTOM_HOURS" -> {"HOURS"}
      [] state = "ATTRIBUTES" -> {"HOURS", "CUSTOM_HOURS"}
      [] state = "PRIVATE_PLACE" -> {"ATTRIBUTES"}
      [] state = "PHOTOS" -> {"PRIVATE_PLACE"}
      [] state = "CONFIRM" -> {"PRIVATE_PLACE", "PHOTOS"}

WizardStates ==
    {"LOCATION_CHOICE", "NAME", "CATEGORY", "ADDRESS", "COORDINATES", "COORDINATES_MANUAL",
     "CONTACT", "HOURS", "CUSTOM_HOURS", "ATTRIBUTES", "PRIVATE_PLACE", "PHOTOS", "CONFIRM"}

\* C33: no update bypasses a wizard step: /start always leads to LOCATION,
\* every wizard state is entered only from the step before it, and CONFIRM
\* only from PRIVATE_PLACE (or PHOTOS); so a path to CONFIRM has gone through
\* NAME, CATEGORY, ADDRESS, COORDINATES, CONTACT, HOURS, ATTRIBUTES and
\* PRIVATE_PLACE in that order since the most recent /start.
C33_StepsAreTakenInOrder ==
    [][/\ (conv_state' # conv_state /\ conv_state' \in WizardStates)
             => conv_state \in StepsBefore(conv_state')
       /\ (last' # last /\ last'.handler = "start") => conv_state' = "LOCATION"]_vars

C33_Witness ==
    /\ conv_state = "CONFIRM"
    /\ last.handler = "private_place_handler"
    /\ last.from = "PRIVATE_PLACE"
    /\ "hours_api" \in DOMAIN user_data
    /\ "attributes_tokens" \in DOMAIN user_data
    /\ "coordinates" \in DOMAIN user_data

\* C34: sharing a location sets search_params to {}, LOCATION_CHOICE is
\* entered only by a location share and leaves search_params alone, so QUERY
\* is entered from LOCATION_CHOICE with an empty search_params and the first
\* search of a run uses the filters parsed from its own text only, none of an
\* earlier run of the chat.
C34_NewRunStartsWithoutFilters ==
    /\ conv_state = "LOCATION_CHOICE" =>
          /\ last.handler \in {"location_handler", "location_choice_handler"}
          /\ Get(user_data, "search_params", None) = EmptyDict
    /\ (last.handler = "location_choice_handler" /\ conv_state = "QUERY") =>
          Get(user_data, "search_params", None) = EmptyDict
    /\ (/\ last.handler = "query_handler"
        /\ last.outcome = "searched"
        /\ Len(parsed_log) = 1)
       => Get(user_data, "search_params", None) = MergeParams(EmptyDict, last.parsed)

C34_Witness ==
    /\ last.handler = "location_handler"
    /\ last.before # EmptyDict
    /\ "radius" \in DOMAIN last.before
    /\ user_data["search_params"] = EmptyDict
    /\ conv_state = "LOCATION_CHOICE"

(***************************************************************************)
(* Query updates of one chat as webhook tasks (web_server.py,              *)
(* query_handler, refine_handler).  A handler is suspended only where it   *)
(* awaits the network: at send_chat_action before it reads search_params,  *)
(* and at the send_chat_action that opens do_foursquare_search after it    *)
(* has written the merged map.  parse_search_query_gpt is awaited, but     *)
(* llm.parse inside it is an ordinary blocking call: from the read of      *)
(* search_params to the write of the merged map the task keeps the event   *)
(* loop.                                                                   *)
(***************************************************************************)
MaxQueryPosts == 2

\* The chat is in QUERY, its location shared and no filter stored yet.
InitMerge ==
    /\ conv_state = "QUERY"
    /\ user_data = Put(Put(EmptyDict, "location", [latitude |-> 40, longitude |-> 0 - 74]),
                       "search_params", EmptyDict)
    /\ parsed_log = <<>>
    /\ last = [handler |-> "none"]
    /\ san_pc = "idle"
    /\ san_raw = EmptyDict
    /\ san_out = EmptyDict
    /\ csb_state = "END"
    /\ csb_user_data = EmptyDict
    /\ csb_last = [handler |-> "none"]
    /\ bot_state = "END"
    /\ bot_user_data = EmptyDict
    /\ bot_last = [handler |-> "none"]
    /\ wh_state = "QUERY"
    /\ wh_tasks = <<>>
    /\ registry = [t \in {} |-> 0]
    /\ reg_last = [op |-> "none", created |-> 0]
    /\ sessions = [id \in {} |-> 0]
    /\ requests = [c \in Chats |->
          [pc |-> "idle", served |-> 0, agent |-> 0, session_id |-> None,
           started_at |-> None, outcome |-> "none",
           context_updates |-> EmptyDict, metrics |-> None]]
    /\ utcnow = 0
    /\ rank_last = [outcome |-> "none"]
    /\ fsq_call = [pc |-> "idle", attempt |-> 0, seen |-> <<>>, slept |-> <<>>,
                   result |-> [kind |-> "none"]]
    /\ route_last = [handled_by |-> "none"]

\* webhook(): a text update of the chat is scheduled.
QueryPost ==
    /\ Len(wh_tasks) < MaxQueryPosts
    /\ wh_tasks' = Append(wh_tasks, [pc |-> "scheduled", handler |-> "none",
                                     parse |-> [ok |-> FALSE], result |-> "none"])
    /\ UNCHANGED <<wh_state, user_data>>
    /\ UNCHANGED <<conv_state, parsed_log, last, sanVars, csbVars, botVars, agVars, rank_last, fsq_call, route_last>>

\* process_update: the stored state picks query_handler or refine_handler,
\* which runs to its send_chat_action; outside QUERY and REFINE no handler
\* takes the text.
QueryTaskBegin ==
    /\ \E i \in 1..Len(wh_tasks) :
          /\ wh_tasks[i].pc = "scheduled"
          /\ \A j \in 1..(i - 1) : wh_tasks[j].pc # "scheduled"
          /\ wh_tasks' = [wh_tasks EXCEPT ![i] =
                [pc |-> IF wh_state \in {"QUERY", "REFINE"} THEN "typing" ELSE "done",
                 handler |-> CASE wh_state = "QUERY" -> "query_handler"
                               [] wh_state = "REFINE" -> "refine_handler"
                               [] OTHER -> "none",
                 parse |-> [ok |-> FALSE], result |-> "none"]]
    /\ UNCHANGED <<wh_state, user_data>>
    /\ UNCHANGED <<conv_state, parsed_log, last, sanVars, csbVars, botVars, agVars, rank_last, fsq_call, route_last>>

\* refine_handler behind its send_chat_action: the classifier is asked; on
\* 'end' the handler goes on to its reply, otherwise to query_handler, which
\* starts with a send_chat_action of its own.
RefineTaskClassify ==
    /\ \E i \in 1..Len(wh_tasks), reply \in {"end", "refine"} :
          /\ wh_tasks[i].pc = "typing"
          /\ wh_tasks[i].handler = "refine_handler"
          /\ wh_tasks' = [wh_tasks EXCEPT ![i] =
                IF gpt_refine_intent(reply)
                THEN [pc |-> "replying", handler |-> "refine_handler",
                      parse |-> [ok |-> FALSE], result |-> "END"]
                ELSE [pc |-> "typing", handler |-> "query_handler",
                      parse |-> [ok |-> FALSE], result |-> "none"]]
    /\ UNCHANGED <<wh_state, user_data>>
    /\ UNCHANGED <<conv_state, parsed_log, last, sanVars, csbVars, botVars, agVars, rank_last, fsq_call, route_last>>

\* query_handler behind its send_chat_action, up to the send_chat_action of
\* do_foursquare_search: search_params is read, the text parsed and the
\* merged map written; a raising parser ends the task.
QueryTaskMerge ==
    /\ \E i \in 1..Len(wh_tasks), parse \in SearchParseOutcomes :
          /\ wh_tasks[i].pc = "typing"
          /\ wh_tasks[i].handler = "query_handler"
          /\ IF parse.ok
             THEN /\ user_data' = Put(user_data, "search_params",
                        MergeParams(Get(user_data, "search_params", EmptyDict), parse.dump))
                  /\ wh_tasks' = [wh_tasks EXCEPT ![i] =
                        [pc |-> "searching", handler |-> "query_handler",
                         parse |-> parse, result |-> "none"]]
             ELSE /\ user_data' = user_data
                  /\ wh_tasks' = [wh_tasks EXCEPT ![i] =
                        [pc |-> "done", handler |-> "query_handler",
                         parse |-> parse, result |-> "raised"]]
    /\ UNCHANGED wh_state
    /\ UNCHANGED <<conv_state, parsed_log, last, sanVars, csbVars, botVars, agVars, rank_last, fsq_call, route_last>>

\* The rest of the handler: do_foursquare_search searches with the stored
\* search_params and replies (QUERY without results or on an error, REFINE
\* with results), refine_handler sends its closing reply; the state the
\* handler returns is stored.
QueryTaskEnd ==
    /\ \E i \in 1..Len(wh_tasks), result \in {"QUERY", "REFINE"} :
          /\ wh_tasks[i].pc \in {"searching", "replying"}
          /\ wh_state' = IF wh_tasks[i].pc = "replying" THEN wh_tasks[i].result ELSE result
          /\ wh_tasks' = [wh_tasks EXCEPT ![i].pc = "done", ![i].result = wh_state']
    /\ UNCHANGED user_data
    /\ UNCHANGED <<conv_state, parsed_log, last, sanVars, csbVars, botVars, agVars, rank_last, fsq_call, route_last>>

NextMerge ==
    \/ QueryPost
    \/ QueryTaskBegin
    \/ RefineTaskClassify
    \/ QueryTaskMerge
    \/ QueryTaskEnd

SpecMerge == InitMerge /\ [][NextMerge]_vars

\* The tasks whose parse result has been merged.
MergedTasks == {i \in 1..Len(wh_tasks) : wh_tasks[i].parse.ok}

\* The fields a task's parse result sets: neither null nor "".
ParsedFields(i) ==
    {k \in DOMAIN wh_tasks[i].parse.dump :
        wh_tasks[i].parse.dump[k] # None /\ wh_tasks[i].parse.dump[k] # PyStr("")}

\* C35: however the query updates of the chat interleave at their awaits, no
\* field an update has parsed is lost from search_params: every such field of
\* every merged update is in search_params, with the value one of the merged
\* updates has parsed for it.
C35_NoParsedFieldIsLost ==
    \A i \in MergedTasks :
        \A k \in ParsedFields(i) :
            /\ k \in DOMAIN user_data["search_params"]
            /\ \E j \in MergedTasks :
                  /\ k \in ParsedFields(j)
                  /\ user_data["search_params"][k] = wh_tasks[j].parse.dump[k]

C35_Witness ==
    /\ Len(wh_tasks) = 2
    /\ wh_tasks[1].pc = "searching"
    /\ wh_tasks[2].pc = "searching"
    /\ wh_tasks[2].handler = "query_handler"
    /\ wh_tasks[1].parse.dump["query"] = PyStr("pizza")
    /\ wh_tasks[2].parse.dump["radius"] = PyInt(500)
    /\ user_data["search_params"]["query"] = PyStr("pizza")
    /\ user_data["search_params"]["radius"] = PyInt(500)

(***************************************************************************)
(* The confirmation callbacks of one chat as webhook tasks (web_server.py, *)
(* handle_confirmation).  check_update reads the stored state when the     *)
(* task starts, the state the handler returns is stored when it ends, and  *)
(* in between the handler awaits query.answer(), send_chat_action and its  *)
(* reply.  fsq.suggest_place is a blocking call.                           *)
(***************************************************************************)
ConfirmCallbacks == {"confirm_yes", "confirm_no"}

\* The chat is at the confirmation prompt with a complete draft.
InitConfirm ==
    /\ conv_state = "CONFIRM"
    /\ user_data = Put(Put(Put(Draft([latitude |-> 40, longitude |-> 0 - 74], "Cafe",
                                     [ids |-> "", names |-> <<>>],
                                     [address |-> "1 Main St", locality |-> "Springfield",
                                      region |-> "IL", postcode |-> "62701",
                                      country_code |-> "US"]),
                               "coordinates_source", "current"),
                           "is_private", FALSE), "attributes_tokens", <<>>)
    /\ parsed_log = <<>>
    /\ last = [handler |-> "none"]
    /\ san_pc = "idle"
    /\ san_raw = EmptyDict
    /\ san_out = EmptyDict
    /\ csb_state = "END"
    /\ csb_user_data = EmptyDict
    /\ csb_last = [handler |-> "none"]
    /\ bot_state = "END"
    /\ bot_user_data = EmptyDict
    /\ bot_last = [handler |-> "none"]
    /\ wh_state = "CONFIRM"
    /\ wh_tasks = <<>>
    /\ registry = [t \in {} |-> 0]
    /\ reg_last = [op |-> "none", created |-> 0]
    /\ sessions = [id \in {} |-> 0]
    /\ requests = [c \in Chats |->
          [pc |-> "idle", served |-> 0, agent |-> 0, session_id |-> None,
           started_at |-> None, outcome |-> "none",
           context_updates |-> EmptyDict, metrics |-> None]]
    /\ utcnow = 0
    /\ rank_last = [outcome |-> "none"]
    /\ fsq_call = [pc |-> "idle", attempt |-> 0, seen |-> <<>>, slept |-> <<>>,
                   result |-> [kind |-> "none"]]
    /\ route_last = [handled_by |-> "none"]

\* webhook(): a tap on a button of the confirmation prompt is scheduled.
ConfirmPost ==
    /\ Len(wh_tasks) < MaxPosts
    /\ \E data \in ConfirmCallbacks :
          wh_tasks' = Append(wh_tasks, [data |-> data, pc |-> "scheduled", seen |-> "none",
                                        suggested |-> FALSE])
    /\ UNCHANGED wh_state
    /\ UNCHANGED <<convVars, sanVars, csbVars, botVars, agVars, rank_last, fsq_call, route_last>>

\* process_update: in CONFIRM the callback goes to handle_confirmation, which
\* runs to its query.answer(); in no other state is a callback handled.
ConfirmTaskBegin ==
    /\ \E i \in 1..Len(wh_tasks) :
          /\ wh_tasks[i].pc = "scheduled"
          /\ \A j \in 1..(i - 1) : wh_tasks[j].pc # "scheduled"
          /\ wh_tasks' = [wh_tasks EXCEPT
                ![i].seen = wh_state,
                ![i].pc = IF wh_state = "CONFIRM" THEN "answering" ELSE "done"]
    /\ UNCHANGED wh_state
    /\ UNCHANGED <<convVars, sanVars, csbVars, botVars, agVars, rank_last, fsq_call, route_last>>

\* query.answer() returns or raises; behind it confirm_yes builds the payload
\* and awaits send_chat_action, any other data goes to the start-over reply.
ConfirmTaskAnswered ==
    /\ \E i \in 1..Len(wh_tasks), answered \in BOOLEAN :
          /\ wh_tasks[i].pc = "answering"
          /\ wh_tasks' = [wh_tasks EXCEPT ![i].pc =
                CASE ~answered -> "raised"
                  [] wh_tasks[i].data = "confirm_yes" -> "typing"
                  [] OTHER -> "replying"]
    /\ UNCHANGED wh_state
    /\ UNCHANGED <<convVars, sanVars, csbVars, botVars, agVars, rank_last, fsq_call, route_last>>

\* send_chat_action returns and fsq.suggest_place is called, or it raises
\* into the except branch; either way the handler goes on to its reply.
ConfirmTaskSuggest ==
    /\ \E i \in 1..Len(wh_tasks), sent \in BOOLEAN :
          /\ wh_tasks[i].pc = "typing"
          /\ wh_tasks' = [wh_tasks EXCEPT ![i].pc = "replying", ![i].suggested = sent]
    /\ UNCHANGED wh_state
    /\ UNCHANGED <<convVars, sanVars, csbVars, botVars, agVars, rank_last, fsq_call, route_last>>

\* The reply is sent and the handler returns ConversationHandler.END, which
\* is stored; a reply that cannot be sent (behind confirm_yes: neither the
\* reply of the try block nor the one of the except branch) raises out of the
\* handler and the stored state stays.
ConfirmTaskEnd ==
    /\ \E i \in 1..Len(wh_tasks), replied \in BOOLEAN :
          /\ wh_tasks[i].pc = "replying"
          /\ wh_tasks' = [wh_tasks EXCEPT ![i].pc = IF replied THEN "done" ELSE "raised"]
          /\ wh_state' = IF replied THEN "END" ELSE wh_state
    /\ UNCHANGED <<convVars, sanVars, csbVars, botVars, agVars, rank_last, fsq_call, route_last>>

NextConfirm ==
    \/ ConfirmPost
    \/ ConfirmTaskBegin
    \/ ConfirmTaskAnswered
    \/ ConfirmTaskSuggest
    \/ ConfirmTaskEnd

SpecConfirm == InitConfirm /\ [][NextConfirm]_vars

\* The tasks that have called fsq.suggest_place.
SuggestingTasks == {i \in 1..Len(wh_tasks) : wh_tasks[i].suggested}

\* C36: for one confirmation prompt suggest_place is called at most once in
\* total, however the confirm_yes callbacks of the chat are delivered.
C36_AtMostOneSuggestion == Cardinality(SuggestingTasks) <= 1

\* A callback that starts after a confirmation handler has returned is not
\* handled and calls nothing.
CallbackBehindEndIsDropped ==
    \A i \in 1..Len(wh_tasks) :
        (wh_tasks[i].seen = "END") => (wh_tasks[i].pc = "done" /\ ~wh_tasks[i].suggested)

\* Two taps delivered one after the other, the second starting when the
\* first handler is over, both calling suggest_place: the first handler has
\* raised at its reply.
TwoCallsInSequence ==
    /\ Len(wh_tasks) = 2
    /\ wh_tasks[1].pc = "raised"
    /\ wh_tasks[1].suggested
    /\ wh_tasks[2].pc = "scheduled"

(***************************************************************************)
(* hackathon_idea/src/integrations/foursquare_client.py: the retry loop of *)
(* FoursquareClient._make_request.                                         *)
(***************************************************************************)
_max_retries == 3
_retry_delay == 1

\* What one client.request can bring: a response with a status code, its
\* body JSON or not, or a transport error (httpx.RequestError).
Responses ==
    {[kind |-> "response", status |-> 200, json |-> TRUE],
     [kind |-> "response", status |-> 200, json |-> FALSE],
     [kind |-> "response", status |-> 429, json |-> TRUE],
     [kind |-> "response", status |-> 404, json |-> TRUE],
     [kind |-> "response", status |-> 500, json |-> FALSE],
     [kind |-> "RequestError"]}

\* response.raise_for_status() passes for the 2xx codes.
IsSuccess(status) == status >= 200 /\ status < 300

Pow2(n) == IF n = 0 THEN 1 ELSE IF n = 1 THEN 2 ELSE IF n = 2 THEN 4 ELSE 8

\* One pass through the body of the for loop (lines 53-93) with the loop
\* variable attempt: return response.json(), raise, or sleep before the
\* next pass.  response.json() raises json.JSONDecodeError for a body that
\* is not JSON, and neither except clause catches it.
AttemptOutcome(attempt, resp) ==
    CASE resp.kind = "RequestError" ->
            IF attempt = _max_retries
            THEN [pc |-> "raised", result |-> [kind |-> "FoursquareAPIError", status_code |-> None]]
            ELSE [pc |-> "sleeping", wait |-> _retry_delay * Pow2(attempt)]
      [] IsSuccess(resp.status) ->
            IF resp.json
            THEN [pc |-> "returned", result |-> [kind |-> "parsed", status_code |-> resp.status]]
            ELSE [pc |-> "raised", result |-> [kind |-> "JSONDecodeError"]]
      [] resp.status = 429 /\ attempt < _max_retries ->
            [pc |-> "sleeping", wait |-> _retry_delay * Pow2(attempt)]
      [] OTHER ->
            [pc |-> "raised", result |-> [kind |-> "FoursquareAPIError", status_code |-> resp.status]]

\* _make_request is called: the first pass of the loop is about to start.
MakeRequestCall ==
    /\ fsq_call.pc \in {"idle", "returned", "raised"}
    /\ fsq_call' = [pc |-> "requesting", attempt |-> 0, seen |-> <<>>, slept |-> <<>>,
                    result |-> [kind |-> "none"]]
    /\ UNCHANGED <<convVars, sanVars, csbVars, botVars, whVars, agVars, rank_last, route_last>>

\* await self.client.request(...) comes back and the pass is finished.
MakeRequestAttempt ==
    /\ fsq_call.pc = "requesting"
    /\ \E resp \in Responses :
          LET out == AttemptOutcome(fsq_call.attempt, resp)
          IN fsq_call' = [pc |-> out.pc,
                          attempt |-> fsq_call.attempt,
                          seen |-> Append(fsq_call.seen, resp),
                          slept |-> IF out.pc = "sleeping"
                                    THEN Append(fsq_call.slept, out.wait)
                                    ELSE fsq_call.slept,
                          result |-> IF out.pc = "sleeping" THEN [kind |-> "none"]
                                     ELSE out.result]
    /\ UNCHANGED <<convVars, sanVars, csbVars, botVars, whVars, agVars, rank_last, route_last>>

\* asyncio.sleep is over: the next pass of range(_max_retries + 1), and
\* behind the last one the end of the function, which returns None.
MakeRequestWake ==
    /\ fsq_call.pc = "sleeping"
    /\ fsq_call' = IF fsq_call.attempt + 1 <= _max_retries
                   THEN [fsq_call EXCEPT !.pc = "requesting", !.attempt = @ + 1]
                   ELSE [fsq_call EXCEPT !.pc = "returned", !.result = [kind |-> "None"]]
    /\ UNCHANGED <<convVars, sanVars, csbVars, botVars, whVars, agVars, rank_last, route_last>>

NextRequest ==
    \/ MakeRequestCall
    \/ MakeRequestAttempt
    \/ MakeRequestWake

SpecRequest == Init /\ [][NextRequest]_vars

RequestOver == fsq_call.pc \in {"returned", "raised"}

\* The call makes at most _max_retries + 1 requests, never ends with a silent
\* None, and goes on after a request only when that request was rate limited
\* (429) or failed in transport; any other error status ends it at once with
\* a FoursquareAPIError carrying the status.
RetryPolicy ==
    /\ Len(fsq_call.seen) <= _max_retries + 1
    /\ Len(fsq_call.seen) = fsq_call.attempt + (IF fsq_call.pc = "requesting" THEN 0 ELSE 1)
       \/ fsq_call.pc = "idle"
    /\ fsq_call.result.kind # "None"
    /\ \A i \in 1..Len(fsq_call.seen) :
          LET resp == fsq_call.seen[i]
          IN /\ (i < Len(fsq_call.seen) \/ fsq_call.pc = "sleeping")
                    => (resp.kind = "RequestError" \/ resp.status = 429)
             /\ (resp.kind = "response" /\ ~IsSuccess(resp.status) /\ resp.status # 429)
                    => /\ fsq_call.pc = "raised"
                       /\ fsq_call.result = [kind |-> "FoursquareAPIError",
                                             status_code |-> resp.status]

\* C37: _make_request ends after at most 4 requests with a parsed response
\* or a FoursquareAPIError, never with None; it retries only on 429 and on
\* transport errors, and any other error status raises without a retry.
C37_ParsedOrFoursquareError ==
    /\ RetryPolicy
    /\ RequestOver => fsq_call.result.kind \in {"parsed", "FoursquareAPIError"}

\* Four requests made, the last one failed in transport too.
RetriesExhausted ==
    /\ fsq_call.pc = "raised"
    /\ Len(fsq_call.seen) = _max_retries + 1
    /\ fsq_call.slept = <<1, 2, 4>>
    /\ fsq_call.result = [kind |-> "FoursquareAPIError", status_code |-> None]

(***************************************************************************)
(* agents: the way of a text message through SupervisorAgent               *)
(* (supervisor_agent.py) to the agent that answers it.                     *)
(***************************************************************************)
\* ConversationState (models/pydantic_models.py): the values the model uses.
ConversationStateValues ==
    {"location", "location_choice", "query", "refine", "place_details", "contribute_name"}

RouteMessages ==
    {"I want to add a new place", "Add my cafe please", "find pizza nearby", "hello"}

\* conversation_state of the stored context: a state value, none, or a value
\* that is no ConversationState.
RouteContextStates == {"none", "location_choice", "query", "contribute_name", "bogus"}

\* The answer of the intent classifier, "raise" for a failed completion.
IntentAnswers == {"search", "contribute", "help", "raise"}

AnyKeyword(message, keywords) == \E k \in keywords : Contains(message, k)

\* _get_conversation_state: the ConversationState of the context, None when
\* there is none or the value is not one.
GetConversationState(state_value) ==
    IF state_value \in ConversationStateValues THEN state_value ELSE "none"

\* _route_by_state: the agent type the state gives, "none" for None.
RouteByState(state, message) ==
    CASE state \in {"location", "location_choice"} -> "search"
      [] state \in {"query", "refine"} ->
            IF AnyKeyword(message, {"recommend", "suggest", "best", "good", "craving",
                                    "want", "looking"})
            THEN "recommendation" ELSE "search"
      [] StartsWith(state, "contribute_") -> "data_management"
      [] OTHER -> "none"

\* _fallback_routing.
FallbackRouting(message) ==
    CASE AnyKeyword(message, {"find", "search", "where", "show me", "location"}) -> "search"
      [] AnyKeyword(message, {"recommend", "suggest", "best", "good", "craving"}) ->
            "recommendation"
      [] AnyKeyword(message, {"add", "contribute", "new place", "submit"}) -> "data_management"
      [] OTHER -> "supervisor"

\* _route_by_intent: the classifier's answer mapped to an agent type.
RouteByIntent(message, answer) ==
    CASE answer = "raise" -> FallbackRouting(message)
      [] answer = "search" -> "search"
      [] answer = "recommend" -> "recommendation"
      [] answer = "contribute" -> "data_management"
      [] OTHER -> "supervisor"

\* _route_request: the state decides where it can, the intent otherwise.
RouteRequest(state, message, answer) ==
    IF state # "none" /\ RouteByState(state, message) # "none"
    THEN RouteByState(state, message)
    ELSE RouteByIntent(message, answer)

\* can_handle of the specialist agents.
AgentCanHandle(agent_type, message, state_value, has_location) ==
    CASE agent_type = "search" ->
            AnyKeyword(message, {"find", "search", "show me", "where", "locate", "places",
                                 "near", "nearby", "around", "close"}) \/ has_location
      [] agent_type = "recommendation" ->
            AnyKeyword(message, {"recommend", "suggest", "best", "good", "great", "top",
                                 "craving", "want", "looking for", "favorite", "popular",
                                 "advice", "cheap", "expensive", "fancy", "casual", "local"})
      [] agent_type = "data_management" ->
            (state_value # "none" /\ StartsWith(state_value, "contribute_"))
            \/ AnyKeyword(message, {"add", "contribute", "new place", "submit", "create",
                                    "register", "update", "edit", "modify", "report"})
      [] OTHER -> TRUE

\* _delegate_to_agent: the target answers when its can_handle agrees, the
\* supervisor itself otherwise.
DelegateToAgent(target, message, state_value, has_location) ==
    IF target # "supervisor" /\ AgentCanHandle(target, message, state_value, has_location)
    THEN target ELSE "supervisor"

\* DataManagementAgent.process_request: without a state or in location_choice
\* the contribution starts; with a location the context goes to
\* contribute_name, without one the location is asked for.
DataManagementBranch(state, has_location) ==
    CASE state \in {"none", "location_choice"} ->
            IF has_location THEN [branch |-> "_start_contribution",
                                  conversation_state |-> "contribute_name"]
            ELSE [branch |-> "_request_location_for_contribution",
                  conversation_state |-> "none"]
      [] StartsWith(state, "contribute_") ->
            [branch |-> "_continue_contribution", conversation_state |-> "contribute_category"]
      [] OTHER -> [branch |-> "_handle_general_request", conversation_state |-> "none"]

\* The conversation_state values the other agents put into their context
\* updates ("none": the key is not written).
WrittenStates(agent_type) ==
    IF agent_type \in {"search", "recommendation"} THEN {"location", "refine", "none"}
    ELSE {"location", "none"}

\* SupervisorAgent.process_request for one text message of a chat.
SupervisorRoute ==
    /\ \E message \in RouteMessages, state_value \in RouteContextStates,
          has_location \in BOOLEAN, answer \in IntentAnswers :
          LET lowered == Strip(Lower(message))
              state == GetConversationState(state_value)
              target == RouteRequest(state, lowered, answer)
              agent == DelegateToAgent(target, Lower(message), state_value, has_location)
          IN \E written \in WrittenStates(agent) :
                route_last' =
                    [message |-> message, conversation_state |-> state_value,
                     has_location |-> has_location, target |-> target,
                     handled_by |-> agent,
                     branch |-> IF agent = "data_management"
                                THEN DataManagementBranch(state, has_location).branch
                                ELSE "none",
                     new_state |-> IF agent = "data_management"
                                   THEN DataManagementBranch(state, has_location).conversation_state
                                   ELSE written]
    /\ UNCHANGED <<convVars, sanVars, csbVars, botVars, whVars, agVars, rank_last, fsq_call>>

NextRoute == SupervisorRoute

SpecRoute == Init /\ [][NextRoute]_vars

\* The message asks to add a new place.
AsksToAddPlace == route_last.message \in {"I want to add a new place", "Add my cafe please"}

\* C38: a message asking to add a new place that arrives in location_choice
\* with the location known is answered by DataManagementAgent, which starts
\* the contribution and sets the conversation state to contribute_name.
C38_AddPlaceStartsContribution ==
    (/\ route_last.handled_by # "none"
     /\ AsksToAddPlace
     /\ route_last.conversation_state = "location_choice"
     /\ route_last.has_location)
        => /\ route_last.handled_by = "data_management"
           /\ route_last.branch = "_start_contribution"
           /\ route_last.new_state = "contribute_name"

\* Outside a conversation state the same message does start the
\* contribution, when the classifier names the intent.
ContributionStartedWithoutState ==
    /\ route_last.handled_by = "data_management"
    /\ route_last.conversation_state = "none"
    /\ route_last.branch = "_start_contribution"
    /\ route_last.new_state = "contribute_name"

====
